---- MODULE Spec2Model ----
(***************************************************************************)
(* Storage API of trip-optimizer: the validation pipeline                  *)
(* (app/utils/validators.py), the S3 storage service                       *)
(* (app/services/s3_service.py) and the upload / presigned request         *)
(* handlers (app/routes/upload.py).                                        *)
(*                                                                         *)
(* A filename is a sequence of one-character strings.  A file body is      *)
(* abstracted to its leading signature (what libmagic sees) and its        *)
(* length in bytes.  The bucket is a function from object keys to stored   *)
(* objects; the S3 client may fail any call.                               *)
(***************************************************************************)
EXTENDS Integers, Sequences, FiniteSets, TLC

VARIABLES
    store,   \* the bucket: object key -> stored object
    now,     \* the wall clock read by datetime.utcnow()
    used,    \* file identities already minted by uuid4() or supplied by a caller
    req,     \* the request (operation and arguments) handled last
    ret,     \* its response / return value / raised error
    calls,   \* the S3 client calls issued while handling it, in order
    prev,    \* when the same read was served twice in a row: the earlier outcome
    log,     \* what the upload handlers logged about rejected or failed files
    upload_path  \* the upload_path the service is constructed with

vars == <<store, now, used, req, ret, calls, prev, log, upload_path>>

-----------------------------------------------------------------------------
(* Bounds of the model *)

MaxIds == 2
MaxTime == 1
MaxObjects == 2
MaxBatch == 2
MaxNameLen == 2
MaxMbTried == 10

-----------------------------------------------------------------------------
(* Program constants *)

MaxFilenameLen == 255
MaxFileSizeMb == 100
BytesPerMb == 1048576
MaxExpiration == 604800
DefaultExpiration == 3600

DefaultUploadPath == <<"u", "p", "l", "o", "a", "d", "s", "/">>

AllowedTypes == <<"image/jpeg", "image/png", "image/gif", "application/pdf", "text/plain">>

None == "None"

IDs == 1..MaxIds
Times == 0..MaxTime

-----------------------------------------------------------------------------
(* Strings as sequences of characters *)

WhiteSpace == {" ", "\t"}

CharCode(c) ==
    CASE c = "\t" -> 9
      [] c = " " -> 32
      [] c = "\"" -> 34
      [] c = "*" -> 42
      [] c = "." -> 46
      [] c = "/" -> 47
      [] c = ":" -> 58
      [] c = "<" -> 60
      [] c = ">" -> 62
      [] c = "?" -> 63
      [] c = "\\" -> 92
      [] c = "a" -> 97
      [] c = "b" -> 98
      [] c = "e" -> 101
      [] c = "k" -> 107
      [] c = "n" -> 110
      [] c = "o" -> 111
      [] c = "q" -> 113
      [] c = "t" -> 116
      [] c = "u" -> 117
      [] c = "w" -> 119
      [] c = "x" -> 120
      [] c = "|" -> 124

\* s < t in the byte order S3 lists keys in
RECURSIVE LexLess(_, _)
LexLess(s, t) ==
    IF t = <<>> THEN FALSE
    ELSE IF s = <<>> THEN TRUE
    ELSE IF s[1] = t[1] THEN LexLess(Tail(s), Tail(t))
    ELSE CharCode(s[1]) < CharCode(t[1])

Contains(s, sub) ==
    \E i \in 1..(Len(s) - Len(sub) + 1) : SubSeq(s, i, i + Len(sub) - 1) = sub

\* str.strip()
RECURSIVE LStrip(_)
LStrip(s) == IF s # <<>> /\ s[1] \in WhiteSpace THEN LStrip(Tail(s)) ELSE s

RECURSIVE RStrip(_)
RStrip(s) ==
    IF s # <<>> /\ s[Len(s)] \in WhiteSpace THEN RStrip(SubSeq(s, 1, Len(s) - 1)) ELSE s

Strip(s) == RStrip(LStrip(s))

\* str.rstrip(chars)
RECURSIVE RStripChars(_, _)
RStripChars(s, chars) ==
    IF s # <<>> /\ s[Len(s)] \in chars
    THEN RStripChars(SubSeq(s, 1, Len(s) - 1), chars)
    ELSE s

-----------------------------------------------------------------------------
(* app/utils/validators.py *)

DangerousChars ==
    << <<"/">>, <<"\\">>, <<".", ".">>, <<"<">>, <<">">>, <<":">>, <<"\"">>,
       <<"|">>, <<"?">>, <<"*">> >>

DangerousCharsNoDotDot ==
    << <<"/">>, <<"\\">>, <<"<">>, <<">">>, <<":">>, <<"\"">>,
       <<"|">>, <<"?">>, <<"*">> >>

ValidateFilenameWith(dangerous, filename) ==
    IF filename = <<>> \/ Strip(filename) = <<>>
    THEN [ok |-> FALSE, err |-> "Filename cannot be empty"]
    ELSE LET sanitized == Strip(filename)
             hits == {i \in 1..Len(dangerous) : Contains(sanitized, dangerous[i])}
         IN IF hits # {}
            THEN [ok |-> FALSE, err |-> "Filename contains invalid character",
                  invalid_char |-> dangerous[CHOOSE i \in hits : \A j \in hits : i <= j]]
            ELSE IF Len(sanitized) > MaxFilenameLen
            THEN [ok |-> FALSE, err |-> "Filename too long"]
            ELSE [ok |-> TRUE, name |-> sanitized]

ValidateFilenameNoDotDot(filename) == ValidateFilenameWith(DangerousCharsNoDotDot, filename)

ValidateFilename(filename) == ValidateFilenameWith(DangerousChars, filename)

\* mimetypes.guess_type: the type registered for the extension, if any
GuessType(filename) ==
    LET dots == {i \in 1..Len(filename) : filename[i] = "."}
    IN IF dots = {} THEN None
       ELSE LET p == CHOOSE i \in dots : \A j \in dots : j <= i
                ext == SubSeq(filename, p + 1, Len(filename))
            IN IF \A j \in 1..(p - 1) : filename[j] = "." THEN None
               ELSE IF ext = <<"t", "x", "t">> THEN "text/plain"
               ELSE IF ext = <<"e", "x", "e">> THEN "application/octet-stream"
               ELSE None

\* magic.from_buffer(content, mime=True); an exception inside it is swallowed
MagicFromBuffer(content) ==
    CASE content.sig = "pdf" -> "application/pdf"
      [] content.sig = "bin" -> "application/octet-stream"
      [] OTHER -> None

InSeq(x, s) == \E i \in 1..Len(s) : s[i] = x

\* a buggy variant: a type passes as soon as its major part is allowed
MajorOf(t) ==
    CASE t \in {"image/jpeg", "image/png", "image/gif"} -> "image"
      [] t \in {"application/pdf", "application/octet-stream"} -> "application"
      [] t = "text/plain" -> "text"
      [] OTHER -> t

TypeAllowedByMajor(mime_type, allowed_types) ==
    \E i \in 1..Len(allowed_types) : MajorOf(allowed_types[i]) = MajorOf(mime_type)

TypeAllowed(mime_type, allowed_types) == InSeq(mime_type, allowed_types)

\* a buggy variant: the content is sniffed first, the extension is the fallback
ValidateFileTypeSniffsFirst(filename, allowed_types, file_content) ==
    IF filename = <<>>
    THEN [ok |-> FALSE, err |-> "Filename cannot be empty", sniffed |-> FALSE]
    ELSE LET sniffed == file_content.len > 0
             magic == IF sniffed THEN MagicFromBuffer(file_content) ELSE None
             mime_type == IF magic = None THEN GuessType(filename) ELSE magic
         IN IF mime_type = None
            THEN [ok |-> FALSE, err |-> "Could not determine file type", sniffed |-> sniffed]
            ELSE IF ~TypeAllowed(mime_type, allowed_types)
            THEN [ok |-> FALSE, err |-> "File type is not allowed",
                  detected_type |-> mime_type, sniffed |-> sniffed]
            ELSE [ok |-> TRUE, type |-> mime_type, sniffed |-> sniffed]

\* sniffed: whether magic.from_buffer was called
ValidateFileType(filename, allowed_types, file_content) ==
    IF filename = <<>>
    THEN [ok |-> FALSE, err |-> "Filename cannot be empty", sniffed |-> FALSE]
    ELSE LET guessed == GuessType(filename)
             sniffed == guessed = None /\ file_content.len > 0
             mime_type == IF sniffed THEN MagicFromBuffer(file_content) ELSE guessed
         IN IF mime_type = None
            THEN [ok |-> FALSE, err |-> "Could not determine file type", sniffed |-> sniffed]
            ELSE IF ~TypeAllowed(mime_type, allowed_types)
            THEN [ok |-> FALSE, err |-> "File type is not allowed",
                  detected_type |-> mime_type, sniffed |-> sniffed]
            ELSE [ok |-> TRUE, type |-> mime_type, sniffed |-> sniffed]

\* a buggy variant: a file exactly at the ceiling is rejected
ValidateFileSizeExclusive(file_size, max_size_mb) ==
    IF file_size <= 0
    THEN [ok |-> FALSE, err |-> "File size must be greater than 0"]
    ELSE IF file_size >= max_size_mb * BytesPerMb
    THEN [ok |-> FALSE, err |-> "File size exceeds maximum allowed size"]
    ELSE [ok |-> TRUE]

ValidateFileSize(file_size, max_size_mb) ==
    IF file_size <= 0
    THEN [ok |-> FALSE, err |-> "File size must be greater than 0"]
    ELSE IF file_size > max_size_mb * BytesPerMb
    THEN [ok |-> FALSE, err |-> "File size exceeds maximum allowed size"]
    ELSE [ok |-> TRUE]

-----------------------------------------------------------------------------
(* The bucket and the S3 client calls (boto3) *)

EmptyStore == <<>>

IsoFormat(t) == [iso |-> t]

\* datetime.fromisoformat: the instant; ValueError for anything that is no
\* ISO-8601 string
IsIsoString(s) == DOMAIN s = {"iso"}
FromIsoFormat(s) == s.iso

\* a buggy variant: a slash is appended to the path as configured
UploadPathAppendsSlash == upload_path \o <<"/">>

\* self.upload_path
UploadPath == RStripChars(upload_path, {"/"}) \o <<"/">>

S3Key(file_id, filename) == [prefix |-> UploadPath, id |-> file_id, name |-> filename]

Digits == <<"0", "1", "2", "3", "4", "5", "6", "7", "8", "9">>

\* str(file_id): every UUID is written with the same number of characters
IdText(file_id) == <<Digits[((file_id \div 10) % 10) + 1], Digits[(file_id % 10) + 1]>>

\* f"{self.upload_path}{file_id}/{filename}"
KeyText(key) == key.prefix \o IdText(key.id) \o <<"/">> \o key.name

\* the order of the key texts; under one prefix that is the order of the
\* identities, then of the filenames
KeyLess(k1, k2) ==
    IF k1.prefix = k2.prefix
    THEN k1.id < k2.id \/ (k1.id = k2.id /\ LexLess(k1.name, k2.name))
    ELSE LexLess(KeyText(k1), KeyText(k2))

RECURSIVE SortedKeys(_)
SortedKeys(S) ==
    IF S = {} THEN <<>>
    ELSE LET m == CHOOSE k \in S : \A o \in S \ {k} : KeyLess(k, o)
         IN <<m>> \o SortedKeys(S \ {m})

Take(s, n) == IF Len(s) <= n THEN s ELSE SubSeq(s, 1, n)

\* a listing prefix: "" for every key, upload_path for the keys of the service,
\* upload_path + id + "/" for the keys of one identity, or a prefix of no key
\* a prefix of the bucket that is not the upload path
OtherPath == <<"o", "t", "h", "e", "r", "/">>

PrefixAll == [kind |-> "all"]
PrefixUploads == [kind |-> "uploads"]
PrefixOfId(file_id) == [kind |-> "id", id |-> file_id]
PrefixOther == [kind |-> "other"]

\* the Prefix argument of list_objects_v2; f"{self.upload_path}{file_id}/" for
\* the keys of an identity
PrefixText(prefix) ==
    CASE prefix.kind = "all" -> <<>>
      [] prefix.kind = "uploads" -> UploadPath
      [] prefix.kind = "id" -> UploadPath \o IdText(prefix.id) \o <<"/">>
      [] OTHER -> OtherPath

\* str.startswith
StartsWith(s, p) == Len(p) <= Len(s) /\ SubSeq(s, 1, Len(p)) = p

\* a buggy variant: the listing ignores the identity in the prefix
KeyHasPrefixOfPath(key, prefix) == StartsWith(KeyText(key), UploadPath)

\* S3 lists under a prefix the keys whose text starts with it
KeyHasPrefix(key, prefix) == StartsWith(KeyText(key), PrefixText(prefix))

\* list_objects_v2: the keys under the prefix, in key order
ListObjects(st, prefix) ==
    LET keys == SortedKeys({k \in DOMAIN st : KeyHasPrefix(k, prefix)})
    IN [i \in 1..Len(keys) |->
           [Key |-> keys[i], Size |-> st[keys[i]].Body.len,
            LastModified |-> st[keys[i]].LastModified]]

\* list_objects_v2 with MaxKeys: at most max_keys of them
ListObjectsV2(st, prefix, max_keys) == Take(ListObjects(st, prefix), max_keys)

PutObject(st, key, obj) == [k \in DOMAIN st \cup {key} |-> IF k = key THEN obj ELSE st[k]]

DeleteObjects(st, keys) == [k \in DOMAIN st \ keys |-> st[k]]

StorageServiceError(message) == [type |-> "StorageServiceError", message |-> message]

\* raise StorageServiceError(prefix + str(e)) for an error e caught by "except Exception"
Rewrapped(prefix, e) ==
    [type |-> "StorageServiceError", message |-> prefix, cause |-> e.message]

NotFoundMessage == "File with ID not found"

IsNotFound(e) ==
    /\ e.type = "StorageServiceError"
    /\ \/ e.message = NotFoundMessage
       \/ "cause" \in DOMAIN e /\ e.cause = NotFoundMessage

Faults == {"none", "ClientError", "Exception"}
ReadFaults == {"none", "ClientError", "NoSuchKey", "Exception"}

\* the faults of two calls in sequence: the second is issued only if the first
\* succeeded
FaultPairs == {<<"none", f>> : f \in ReadFaults} \cup {<<f, "none">> : f \in ReadFaults}

\* what a call of S3 that raises nothing may answer: delete_objects answers
\* 200 with the keys it could not remove named under 'Errors'
Answers == {"none", "KeyErrors"}
DeleteFaultPairs == FaultPairs \cup {<<"none", "KeyErrors">>}

-----------------------------------------------------------------------------
(* app/services/s3_service.py *)

\* the methods class S3Service defines
S3ServiceMethods ==
    {"upload_file", "upload_multiple_files", "get_file_status", "delete_file",
     "list_files", "health_check", "get_provider_name"}

\* a buggy variant: the object is stored without the content type passed
UploadFileDropsContentType(st, file_content, filename, content_type, file_id, fault, t) ==
    LET s3_key == S3Key(file_id, filename)
        call == [api |-> "put_object", key |-> s3_key, fault |-> fault]
        obj == [Body |-> file_content, ContentType |-> "binary/octet-stream",
                Metadata |-> [file_id |-> file_id, original_filename |-> filename,
                              uploaded_at |-> IsoFormat(t)],
                LastModified |-> t]
    IN CASE fault = "none" ->
              [ok |-> TRUE, store |-> PutObject(st, s3_key, obj), calls |-> <<call>>,
               value |-> [file_id |-> file_id, filename |-> filename,
                          file_size |-> file_content.len, file_type |-> content_type,
                          storage_url |-> s3_key, uploaded_at |-> t]]
         [] fault = "ClientError" ->
              [ok |-> FALSE, store |-> st, calls |-> <<call>>,
               error |-> StorageServiceError("Failed to upload file to S3")]
         [] OTHER ->
              [ok |-> FALSE, store |-> st, calls |-> <<call>>,
               error |-> StorageServiceError("Unexpected error during file upload")]

\* upload_file with the identity already resolved (file_id, or uuid4() if None):
\* one put_object; t is the clock
UploadFile(st, file_content, filename, content_type, file_id, fault, t) ==
    LET s3_key == S3Key(file_id, filename)
        call == [api |-> "put_object", key |-> s3_key, fault |-> fault]
        obj == [Body |-> file_content, ContentType |-> content_type,
                Metadata |-> [file_id |-> file_id, original_filename |-> filename,
                              uploaded_at |-> IsoFormat(t)],
                LastModified |-> t]
    IN CASE fault = "none" ->
              [ok |-> TRUE, store |-> PutObject(st, s3_key, obj), calls |-> <<call>>,
               value |-> [file_id |-> file_id, filename |-> filename,
                          file_size |-> file_content.len, file_type |-> content_type,
                          storage_url |-> s3_key, uploaded_at |-> t]]
         [] fault = "ClientError" ->
              [ok |-> FALSE, store |-> st, calls |-> <<call>>,
               error |-> StorageServiceError("Failed to upload file to S3")]
         [] OTHER ->
              [ok |-> FALSE, store |-> st, calls |-> <<call>>,
               error |-> StorageServiceError("Unexpected error during file upload")]

\* one turn of the loop of upload_multiple_files; acc.n counts the files taken
MultiStep(acc, file, file_ids, faults, t) ==
    LET i == acc.n + 1
        r == UploadFile(acc.store, file.content, file.filename, file.content_type,
                        file_ids[i], faults[i], t)
    IN IF r.ok
       THEN [store |-> r.store, results |-> Append(acc.results, r.value),
             calls |-> acc.calls \o r.calls, n |-> i]
       ELSE [store |-> acc.store, results |-> acc.results,
             calls |-> acc.calls \o r.calls, n |-> i]

RECURSIVE MultiLoop(_, _, _, _, _)
MultiLoop(acc, files, file_ids, faults, t) ==
    IF files = <<>> THEN acc
    ELSE MultiLoop(MultiStep(acc, Head(files), file_ids, faults, t),
                   Tail(files), file_ids, faults, t)

\* a buggy variant: the first failed file fails the whole call
UploadMultipleFilesFailFast(st, files, file_ids, faults, t) ==
    LET acc == MultiLoop([store |-> st, results |-> <<>>, calls |-> <<>>, n |-> 0],
                         files, file_ids, faults, t)
    IN IF Len(files) # Len(file_ids) \/ Len(acc.results) < Len(files)
       THEN [ok |-> FALSE, store |-> st, calls |-> acc.calls,
             error |-> StorageServiceError("Failed to upload any files")]
       ELSE [ok |-> TRUE, store |-> acc.store, calls |-> acc.calls, value |-> acc.results]

\* upload_multiple_files with the identities already resolved
UploadMultipleFiles(st, files, file_ids, faults, t) ==
    IF Len(files) # Len(file_ids)
    THEN [ok |-> FALSE, store |-> st, calls |-> <<>>,
          error |-> StorageServiceError("Number of files and file IDs must match")]
    ELSE LET acc == MultiLoop([store |-> st, results |-> <<>>, calls |-> <<>>, n |-> 0],
                              files, file_ids, faults, t)
         IN IF acc.results = <<>>
            THEN [ok |-> FALSE, store |-> acc.store, calls |-> acc.calls,
                  error |-> StorageServiceError("Failed to upload any files")]
            ELSE [ok |-> TRUE, store |-> acc.store, calls |-> acc.calls,
                  value |-> acc.results]

\* a buggy variant: an exception that is no ClientError is passed on as it came
TranslateFaultLeaksRaw(fault, what) ==
    CASE fault = "NoSuchKey" -> StorageServiceError(NotFoundMessage)
      [] fault = "ClientError" -> StorageServiceError("Failed to " \o what)
      [] OTHER -> [type |-> "Exception", message |-> "str(e)"]

\* the except clauses shared by get_file_status and delete_file
TranslateFault(fault, what) ==
    CASE fault = "NoSuchKey" -> StorageServiceError(NotFoundMessage)
      [] fault = "ClientError" -> StorageServiceError("Failed to " \o what)
      [] OTHER -> StorageServiceError("Unexpected error " \o what)

MetaGet(metadata, field, default) ==
    IF field \in DOMAIN metadata THEN metadata[field] ELSE default

\* a buggy variant: the upload time reported is the time of the call
GetFileStatusReportsNow(st, file_id, listFault, headFault) ==
    LET listCall == [api |-> "list_objects_v2", prefix |-> PrefixOfId(file_id),
                     fault |-> listFault]
        contents == ListObjects(st, PrefixOfId(file_id))
    IN IF listFault # "none"
       THEN [ok |-> FALSE, calls |-> <<listCall>>,
             error |-> TranslateFault(listFault, "get file status")]
       ELSE IF contents = <<>>
       THEN [ok |-> FALSE, calls |-> <<listCall>>,
             error |-> Rewrapped("Unexpected error getting file status",
                                 StorageServiceError(NotFoundMessage))]
       ELSE LET obj == contents[1]
                s3_key == obj.Key
                headCall == [api |-> "head_object", key |-> s3_key, fault |-> headFault]
                metadata == st[s3_key].Metadata
                parsable == /\ "uploaded_at" \in DOMAIN metadata
                            /\ IsIsoString(metadata.uploaded_at)
            IN IF headFault # "none"
               THEN [ok |-> FALSE, calls |-> <<listCall, headCall>>,
                     error |-> TranslateFault(headFault, "get file status")]
               ELSE [ok |-> TRUE, calls |-> <<listCall, headCall>>,
                     value |-> [file_id |-> file_id,
                                filename |-> MetaGet(metadata, "original_filename",
                                                     <<"u", "n", "k", "n", "o", "w", "n">>),
                                status |-> "uploaded",
                                storage_url |-> s3_key,
                                uploaded_at |-> now]]

\* a buggy variant: the filename is read from a metadata field that is never written
GetFileStatusWrongField(st, file_id, listFault, headFault) ==
    LET listCall == [api |-> "list_objects_v2", prefix |-> PrefixOfId(file_id),
                     fault |-> listFault]
        contents == ListObjects(st, PrefixOfId(file_id))
    IN IF listFault # "none"
       THEN [ok |-> FALSE, calls |-> <<listCall>>,
             error |-> TranslateFault(listFault, "get file status")]
       ELSE IF contents = <<>>
       THEN [ok |-> FALSE, calls |-> <<listCall>>,
             error |-> Rewrapped("Unexpected error getting file status",
                                 StorageServiceError(NotFoundMessage))]
       ELSE LET obj == contents[1]
                s3_key == obj.Key
                headCall == [api |-> "head_object", key |-> s3_key, fault |-> headFault]
                metadata == st[s3_key].Metadata
                parsable == /\ "uploaded_at" \in DOMAIN metadata
                            /\ IsIsoString(metadata.uploaded_at)
            IN IF headFault # "none"
               THEN [ok |-> FALSE, calls |-> <<listCall, headCall>>,
                     error |-> TranslateFault(headFault, "get file status")]
               ELSE [ok |-> TRUE, calls |-> <<listCall, headCall>>,
                     value |-> [file_id |-> file_id,
                                filename |-> MetaGet(metadata, "filename",
                                                     <<"u", "n", "k", "n", "o", "w", "n">>),
                                status |-> "uploaded",
                                storage_url |-> s3_key,
                                uploaded_at |-> IF parsable
                                                THEN FromIsoFormat(metadata.uploaded_at)
                                                ELSE obj.LastModified]]

\* a buggy variant: an uploaded_at that cannot be parsed fails the call
GetFileStatusStrictMetadata(st, file_id, listFault, headFault) ==
    LET listCall == [api |-> "list_objects_v2", prefix |-> PrefixOfId(file_id),
                     fault |-> listFault]
        contents == ListObjects(st, PrefixOfId(file_id))
    IN IF listFault # "none"
       THEN [ok |-> FALSE, calls |-> <<listCall>>,
             error |-> TranslateFault(listFault, "get file status")]
       ELSE IF contents = <<>>
       THEN [ok |-> FALSE, calls |-> <<listCall>>,
             error |-> Rewrapped("Unexpected error getting file status",
                                 StorageServiceError(NotFoundMessage))]
       ELSE LET obj == contents[1]
                s3_key == obj.Key
                headCall == [api |-> "head_object", key |-> s3_key, fault |-> headFault]
                metadata == st[s3_key].Metadata
                parsable == /\ "uploaded_at" \in DOMAIN metadata
                            /\ IsIsoString(metadata.uploaded_at)
            IN IF headFault # "none"
               THEN [ok |-> FALSE, calls |-> <<listCall, headCall>>,
                     error |-> TranslateFault(headFault, "get file status")]
               ELSE IF ~parsable
               THEN [ok |-> FALSE, calls |-> <<listCall, headCall>>,
                     error |-> StorageServiceError("Unexpected error getting file status")]
               ELSE [ok |-> TRUE, calls |-> <<listCall, headCall>>,
                     value |-> [file_id |-> file_id,
                                filename |-> MetaGet(metadata, "original_filename",
                                                     <<"u", "n", "k", "n", "o", "w", "n">>),
                                status |-> "uploaded",
                                storage_url |-> s3_key,
                                uploaded_at |-> IF parsable
                                                THEN FromIsoFormat(metadata.uploaded_at)
                                                ELSE obj.LastModified]]

GetFileStatus(st, file_id, listFault, headFault) ==
    LET listCall == [api |-> "list_objects_v2", prefix |-> PrefixOfId(file_id),
                     fault |-> listFault]
        contents == ListObjects(st, PrefixOfId(file_id))
    IN IF listFault # "none"
       THEN [ok |-> FALSE, calls |-> <<listCall>>,
             error |-> TranslateFault(listFault, "get file status")]
       ELSE IF contents = <<>>
       THEN [ok |-> FALSE, calls |-> <<listCall>>,
             error |-> Rewrapped("Unexpected error getting file status",
                                 StorageServiceError(NotFoundMessage))]
       ELSE LET obj == contents[1]
                s3_key == obj.Key
                headCall == [api |-> "head_object", key |-> s3_key, fault |-> headFault]
                metadata == st[s3_key].Metadata
                parsable == /\ "uploaded_at" \in DOMAIN metadata
                            /\ IsIsoString(metadata.uploaded_at)
            IN IF headFault # "none"
               THEN [ok |-> FALSE, calls |-> <<listCall, headCall>>,
                     error |-> TranslateFault(headFault, "get file status")]
               ELSE [ok |-> TRUE, calls |-> <<listCall, headCall>>,
                     value |-> [file_id |-> file_id,
                                filename |-> MetaGet(metadata, "original_filename",
                                                     <<"u", "n", "k", "n", "o", "w", "n">>),
                                status |-> "uploaded",
                                storage_url |-> s3_key,
                                uploaded_at |-> IF parsable
                                                THEN FromIsoFormat(metadata.uploaded_at)
                                                ELSE obj.LastModified]]

\* a buggy variant: only the first listed object is deleted
DeleteFileFirstOnly(st, file_id, listFault, deleteFault) ==
    LET listCall == [api |-> "list_objects_v2", prefix |-> PrefixOfId(file_id),
                     fault |-> listFault]
        contents == ListObjects(st, PrefixOfId(file_id))
        objects_to_delete == {contents[i].Key : i \in 1..Len(contents) \cap {1}}
        deleteCall == [api |-> "delete_objects", keys |-> objects_to_delete,
                       fault |-> deleteFault]
    IN IF listFault # "none"
       THEN [ok |-> FALSE, store |-> st, calls |-> <<listCall>>,
             error |-> TranslateFault(listFault, "delete file")]
       ELSE IF contents = <<>>
       THEN [ok |-> FALSE, store |-> st, calls |-> <<listCall>>,
             error |-> Rewrapped("Unexpected error deleting file",
                                 StorageServiceError(NotFoundMessage))]
       ELSE IF deleteFault # "none"
       THEN [ok |-> FALSE, store |-> st, calls |-> <<listCall, deleteCall>>,
             error |-> TranslateFault(deleteFault, "delete file")]
       ELSE [ok |-> TRUE, store |-> DeleteObjects(st, objects_to_delete),
             calls |-> <<listCall, deleteCall>>, value |-> TRUE]

\* delete_objects raises nothing for a key S3 refuses to remove: the answer
\* names the key under 'Errors', and delete_file does not read the answer
DeleteFile(st, file_id, listFault, deleteFault) ==
    LET listCall == [api |-> "list_objects_v2", prefix |-> PrefixOfId(file_id),
                     fault |-> listFault]
        contents == ListObjects(st, PrefixOfId(file_id))
        objects_to_delete == {contents[i].Key : i \in 1..Len(contents)}
        deleteCall == [api |-> "delete_objects", keys |-> objects_to_delete,
                       fault |-> deleteFault]
        refused == IF deleteFault = "KeyErrors" THEN {contents[1].Key} ELSE {}
    IN IF listFault # "none"
       THEN [ok |-> FALSE, store |-> st, calls |-> <<listCall>>,
             error |-> TranslateFault(listFault, "delete file")]
       ELSE IF contents = <<>>
       THEN [ok |-> FALSE, store |-> st, calls |-> <<listCall>>,
             error |-> Rewrapped("Unexpected error deleting file",
                                 StorageServiceError(NotFoundMessage))]
       ELSE IF deleteFault \notin Answers
       THEN [ok |-> FALSE, store |-> st, calls |-> <<listCall, deleteCall>>,
             error |-> TranslateFault(deleteFault, "delete file")]
       ELSE [ok |-> TRUE, store |-> DeleteObjects(st, objects_to_delete \ refused),
             calls |-> <<listCall, deleteCall>>, value |-> TRUE]

\* one entry of list_files; headFails: the keys whose head_object fails
FileInfo(st, obj, headFails) ==
    LET base == [key |-> obj.Key, size |-> obj.Size,
                 last_modified |-> [iso |-> obj.LastModified, suffix |-> "Z"],
                 storage_class |-> "STANDARD", url |-> obj.Key]
        metadata == st[obj.Key].Metadata
    IN IF StartsWith(KeyText(obj.Key), UploadPath) /\ obj.Key \notin headFails
       THEN [key |-> base.key, size |-> base.size, last_modified |-> base.last_modified,
             storage_class |-> base.storage_class, url |-> base.url,
             file_id |-> MetaGet(metadata, "file_id", None),
             original_filename |-> MetaGet(metadata, "original_filename", None),
             uploaded_at |-> MetaGet(metadata, "uploaded_at", None),
             content_type |-> st[obj.Key].ContentType]
       ELSE base

\* a buggy variant: a head_object that fails fails the listing
ListFilesFailsOnHead(st, prefix, max_keys, listFault, headFails) ==
    LET listCall == [api |-> "list_objects_v2", prefix |-> prefix, max_keys |-> max_keys,
                     fault |-> listFault]
        contents == ListObjectsV2(st, prefix, max_keys)
        managed == SelectSeq(contents, LAMBDA o : StartsWith(KeyText(o.Key), UploadPath))
        headCalls == [i \in 1..Len(managed) |->
                        [api |-> "head_object", key |-> managed[i].Key,
                         fault |-> IF managed[i].Key \in headFails
                                   THEN "Exception" ELSE "none"]]
    IN IF listFault = "ClientError"
       THEN [ok |-> FALSE, calls |-> <<listCall>>,
             error |-> StorageServiceError("Failed to list files in S3")]
       ELSE IF listFault # "none"
       THEN [ok |-> FALSE, calls |-> <<listCall>>,
             error |-> StorageServiceError("Unexpected error listing files")]
       ELSE IF \E i \in 1..Len(headCalls) : headCalls[i].fault # "none"
       THEN [ok |-> FALSE, calls |-> <<listCall>> \o headCalls,
             error |-> StorageServiceError("Unexpected error listing files")]
       ELSE [ok |-> TRUE, calls |-> <<listCall>> \o headCalls,
             value |-> [i \in 1..Len(contents) |-> FileInfo(st, contents[i], headFails)]]

ListFiles(st, prefix, max_keys, listFault, headFails) ==
    LET listCall == [api |-> "list_objects_v2", prefix |-> prefix, max_keys |-> max_keys,
                     fault |-> listFault]
        contents == ListObjectsV2(st, prefix, max_keys)
        managed == SelectSeq(contents, LAMBDA o : StartsWith(KeyText(o.Key), UploadPath))
        headCalls == [i \in 1..Len(managed) |->
                        [api |-> "head_object", key |-> managed[i].Key,
                         fault |-> IF managed[i].Key \in headFails
                                   THEN "Exception" ELSE "none"]]
    IN IF listFault = "ClientError"
       THEN [ok |-> FALSE, calls |-> <<listCall>>,
             error |-> StorageServiceError("Failed to list files in S3")]
       ELSE IF listFault # "none"
       THEN [ok |-> FALSE, calls |-> <<listCall>>,
             error |-> StorageServiceError("Unexpected error listing files")]
       ELSE [ok |-> TRUE, calls |-> <<listCall>> \o headCalls,
             value |-> [i \in 1..Len(contents) |-> FileInfo(st, contents[i], headFails)]]

\* a buggy variant: an exception that is no ClientError escapes health_check
HealthCheckRaises(st, fault) ==
    LET probe == [api |-> "list_objects_v2", prefix |-> PrefixAll, max_keys |-> 1,
                  fault |-> fault]
    IN CASE fault = "none" ->
              [ok |-> TRUE, store |-> st, calls |-> <<probe>>,
               value |-> [status |-> "healthy", provider |-> "s3",
                          bucket_accessible |-> TRUE]]
         [] fault = "ClientError" ->
              [ok |-> TRUE, store |-> st, calls |-> <<probe>>,
               value |-> [status |-> "unhealthy", provider |-> "s3",
                          bucket_accessible |-> FALSE, error |-> "Message",
                          error_code |-> "Code"]]
         [] OTHER ->
              [ok |-> FALSE, store |-> st, calls |-> <<probe>>,
               error |-> [type |-> "Exception", message |-> "str(e)"]]

\* S3Service.health_check: the dict it returns
HealthCheck(st, fault) ==
    LET probe == [api |-> "list_objects_v2", prefix |-> PrefixAll, max_keys |-> 1,
                  fault |-> fault]
    IN CASE fault = "none" ->
              [ok |-> TRUE, store |-> st, calls |-> <<probe>>,
               value |-> [status |-> "healthy", provider |-> "s3",
                          bucket_accessible |-> TRUE]]
         [] fault = "ClientError" ->
              [ok |-> TRUE, store |-> st, calls |-> <<probe>>,
               value |-> [status |-> "unhealthy", provider |-> "s3",
                          bucket_accessible |-> FALSE, error |-> "Message",
                          error_code |-> "Code"]]
         [] OTHER ->
              [ok |-> TRUE, store |-> st, calls |-> <<probe>>,
               value |-> [status |-> "unhealthy", provider |-> "s3",
                          bucket_accessible |-> FALSE, error |-> "str(e)"]]

-----------------------------------------------------------------------------
(* app/routes/health.py *)

\* GET /health/storage
HandleStorageHealth(st, fault) ==
    LET h == HealthCheck(st, fault)
    IN IF ~h.ok
       THEN [store |-> h.store, calls |-> h.calls,
             ret |-> [status |-> 200, success |-> FALSE,
                      data |-> [status |-> "unhealthy", storage_provider |-> "unknown",
                                bucket_accessible |-> FALSE]]]
       ELSE [store |-> h.store, calls |-> h.calls,
             ret |-> [status |-> 200, success |-> h.value.status = "healthy",
                      data |-> [status |-> IF h.value.status = "healthy"
                                           THEN "healthy" ELSE "unhealthy",
                                storage_provider |-> h.value.provider,
                                bucket_accessible |-> h.value.bucket_accessible]]]

-----------------------------------------------------------------------------
(* app/routes/upload.py *)

Unknown == <<"u", "n", "k", "n", "o", "w", "n">>

\* the three checks both upload handlers run on a file, in their order
\* a buggy variant: the size is checked before the type
ValidateUploadSizeFirst(file) ==
    LET vf == ValidateFilename(IF file.filename = <<>> THEN Unknown ELSE file.filename)
    IN IF ~vf.ok THEN [ok |-> FALSE, stage |-> "filename", err |-> vf.err]
       ELSE LET vs == ValidateFileSize(file.content.len, MaxFileSizeMb)
            IN IF ~vs.ok THEN [ok |-> FALSE, stage |-> "size", err |-> vs.err]
               ELSE LET vt == ValidateFileType(vf.name, AllowedTypes, file.content)
                    IN IF ~vt.ok THEN [ok |-> FALSE, stage |-> "type", err |-> vt.err]
                       ELSE [ok |-> TRUE, filename |-> vf.name, content_type |-> vt.type]

ValidateUpload(file) ==
    LET vf == ValidateFilename(IF file.filename = <<>> THEN Unknown ELSE file.filename)
    IN IF ~vf.ok THEN [ok |-> FALSE, stage |-> "filename", err |-> vf.err]
       ELSE LET vt == ValidateFileType(vf.name, AllowedTypes, file.content)
            IN IF ~vt.ok THEN [ok |-> FALSE, stage |-> "type", err |-> vt.err]
               ELSE LET vs == ValidateFileSize(file.content.len, MaxFileSizeMb)
                    IN IF ~vs.ok THEN [ok |-> FALSE, stage |-> "size", err |-> vs.err]
                       ELSE [ok |-> TRUE, filename |-> vf.name, content_type |-> vt.type]

\* logger.warning / logger.error with the message of the exception caught
Logged(level, message) == [level |-> level, message |-> message]

\* a buggy variant: a failed write is answered 400, like a rejected file
HandleUploadSingleBlamesClient(st, file, fid, fault, t) ==
    LET v == ValidateUpload(file)
    IN IF ~v.ok
       THEN [store |-> st, calls |-> <<>>, minted |-> {},
             log |-> <<Logged("warning", v.err)>>,
             ret |-> [status |-> 400, detail |-> v.err]]
       ELSE LET r == UploadFile(st, file.content, v.filename, v.content_type, fid, fault, t)
            IN [store |-> r.store, calls |-> r.calls, minted |-> {fid},
                log |-> IF r.ok THEN <<>> ELSE <<Logged("error", r.error.message)>>,
                ret |-> IF r.ok
                        THEN [status |-> 200, success |-> TRUE, data |-> r.value]
                        ELSE [status |-> 400, detail |-> r.error.message]]

\* a buggy variant: a failed write is tried once more before it is reported
HandleUploadSingleRetries(st, file, fid, fault, t) ==
    LET v == ValidateUpload(file)
    IN IF ~v.ok
       THEN [store |-> st, calls |-> <<>>, minted |-> {},
             log |-> <<Logged("warning", v.err)>>,
             ret |-> [status |-> 400, detail |-> v.err]]
       ELSE LET r == UploadFile(st, file.content, v.filename, v.content_type, fid, fault, t)
            IN [store |-> r.store,
                calls |-> IF r.ok THEN r.calls ELSE r.calls \o r.calls, minted |-> {fid},
                log |-> IF r.ok THEN <<>> ELSE <<Logged("error", r.error.message)>>,
                ret |-> IF r.ok
                        THEN [status |-> 200, success |-> TRUE, data |-> r.value]
                        ELSE [status |-> 500, detail |-> r.error.message]]

\* POST /upload/single; fid is the identity uuid4() yields if upload_file is reached
HandleUploadSingle(st, file, fid, fault, t) ==
    LET v == ValidateUpload(file)
    IN IF ~v.ok
       THEN [store |-> st, calls |-> <<>>, minted |-> {},
             log |-> <<Logged("warning", v.err)>>,
             ret |-> [status |-> 400, detail |-> v.err]]
       ELSE LET r == UploadFile(st, file.content, v.filename, v.content_type, fid, fault, t)
            IN [store |-> r.store, calls |-> r.calls, minted |-> {fid},
                log |-> IF r.ok THEN <<>> ELSE <<Logged("error", r.error.message)>>,
                ret |-> IF r.ok
                        THEN [status |-> 200, success |-> TRUE, data |-> r.value]
                        ELSE [status |-> 500, detail |-> r.error.message]]

\* a buggy variant: the size of a file is counted before its upload is tried
BatchStepCountsAttempted(acc, file, ids, faults, t) ==
    LET v == ValidateUpload(file)
    IN IF ~v.ok THEN [acc EXCEPT !.log = Append(@, Logged("warning", v.err))]
       ELSE LET i == acc.n + 1
                r == UploadFile(acc.store, file.content, v.filename, v.content_type,
                                ids[i], faults[i], t)
            IN [store |-> r.store,
                uploaded_files |-> IF r.ok THEN Append(acc.uploaded_files, r.value)
                                   ELSE acc.uploaded_files,
                total_size |-> acc.total_size + file.content.len,
                calls |-> acc.calls \o r.calls, n |-> i,
                log |-> IF r.ok THEN acc.log
                        ELSE Append(acc.log, Logged("error", r.error.message))]

\* one turn of the loop of POST /upload/multiple; acc.n counts the files that
\* reached upload_file, the n-th of which gets identity ids[n] and fault faults[n]
BatchStep(acc, file, ids, faults, t) ==
    LET v == ValidateUpload(file)
    IN IF ~v.ok THEN [acc EXCEPT !.log = Append(@, Logged("warning", v.err))]
       ELSE LET i == acc.n + 1
                r == UploadFile(acc.store, file.content, v.filename, v.content_type,
                                ids[i], faults[i], t)
            IN IF r.ok
               THEN [store |-> r.store, uploaded_files |-> Append(acc.uploaded_files, r.value),
                     total_size |-> acc.total_size + file.content.len,
                     calls |-> acc.calls \o r.calls, n |-> i, log |-> acc.log]
               ELSE [store |-> acc.store, uploaded_files |-> acc.uploaded_files,
                     total_size |-> acc.total_size,
                     calls |-> acc.calls \o r.calls, n |-> i,
                     log |-> Append(acc.log, Logged("error", r.error.message))]

\* a buggy variant: the loop ends at the first file that is not uploaded
RECURSIVE BatchLoopStopsAtFailure(_, _, _, _, _)
BatchLoopStopsAtFailure(acc, files, ids, faults, t) ==
    IF files = <<>> THEN acc
    ELSE LET nxt == BatchStep(acc, Head(files), ids, faults, t)
         IN IF Len(nxt.uploaded_files) = Len(acc.uploaded_files) THEN nxt
            ELSE BatchLoopStopsAtFailure(nxt, Tail(files), ids, faults, t)

\* the loop of POST /upload/multiple: each turn starts from the value the turn
\* before it left
RECURSIVE BatchLoop(_, _, _, _, _)
BatchLoop(acc, files, ids, faults, t) ==
    IF files = <<>> THEN acc
    ELSE CHOOSE out \in {BatchLoop(nxt, Tail(files), ids, faults, t) :
                            nxt \in {BatchStep(acc, Head(files), ids, faults, t)}} : TRUE

RECURSIVE SumSizes(_)
SumSizes(responses) ==
    IF responses = <<>> THEN 0 ELSE Head(responses).file_size + SumSizes(Tail(responses))

\* POST /upload/multiple, after the loop: the response for what the loop left
BatchResponse(acc, ids) ==
    LET minted == {ids[i] : i \in 1..acc.n}
        total_files == Len(acc.uploaded_files)
    IN IF acc.uploaded_files = <<>>
       THEN [store |-> acc.store, calls |-> acc.calls, minted |-> minted, log |-> acc.log,
             ret |-> [status |-> 400, detail |-> "No files were successfully uploaded"]]
       ELSE IF total_files # Len(acc.uploaded_files)
               \/ acc.total_size # SumSizes(acc.uploaded_files)
       THEN [store |-> acc.store, calls |-> acc.calls, minted |-> minted, log |-> acc.log,
             ret |-> [status |-> 500, detail |-> "Internal server error"]]
       ELSE [store |-> acc.store, calls |-> acc.calls, minted |-> minted, log |-> acc.log,
             ret |-> [status |-> 200, success |-> TRUE,
                      data |-> [uploaded_files |-> acc.uploaded_files,
                                total_files |-> total_files,
                                total_size |-> acc.total_size]]]

\* POST /upload/multiple
HandleUploadMultiple(st, files, ids, faults, t) ==
    CHOOSE h \in {BatchResponse(acc, ids) :
                    acc \in {BatchLoop([store |-> st, uploaded_files |-> <<>>,
                                        total_size |-> 0, calls |-> <<>>, n |-> 0,
                                        log |-> <<>>], files, ids, faults, t)}} : TRUE

\* UUID(file_id): a path parameter is text; the forms uuid.UUID accepts name
\* the same identity, anything else raises ValueError
UuidForms == {"hyphenated", "hex", "braced", "urn"}

ParseUuid(text) ==
    IF text.form \in UuidForms THEN [ok |-> TRUE, uuid |-> text.id] ELSE [ok |-> FALSE]

\* a buggy variant: a storage error is answered 500, as GET /upload/list does
HandleGetUploadStatusAs500(st, file_id, listFault, headFault) ==
    LET parsed == ParseUuid(file_id)
    IN IF ~parsed.ok
       THEN [calls |-> <<>>, ret |-> [status |-> 400, detail |-> "Invalid file ID format"]]
       ELSE LET r == GetFileStatus(st, parsed.uuid, listFault, headFault)
            IN [calls |-> r.calls,
                ret |-> IF r.ok
                        THEN [status |-> 200, success |-> TRUE, data |-> r.value]
                        ELSE [status |-> 500, detail |-> r.error]]

\* a buggy variant: 404 is kept for a file that is not found, another storage
\* error is answered 500
HandleGetUploadStatusSplits(st, file_id, listFault, headFault) ==
    LET parsed == ParseUuid(file_id)
    IN IF ~parsed.ok
       THEN [calls |-> <<>>, ret |-> [status |-> 400, detail |-> "Invalid file ID format"]]
       ELSE LET r == GetFileStatus(st, parsed.uuid, listFault, headFault)
            IN [calls |-> r.calls,
                ret |-> IF r.ok
                        THEN [status |-> 200, success |-> TRUE, data |-> r.value]
                        ELSE IF IsNotFound(r.error)
                        THEN [status |-> 404, detail |-> r.error]
                        ELSE [status |-> 500, detail |-> "Internal server error"]]

\* GET /upload/status/{file_id}
HandleGetUploadStatus(st, file_id, listFault, headFault) ==
    LET parsed == ParseUuid(file_id)
    IN IF ~parsed.ok
       THEN [calls |-> <<>>, ret |-> [status |-> 400, detail |-> "Invalid file ID format"]]
       ELSE LET r == GetFileStatus(st, parsed.uuid, listFault, headFault)
            IN [calls |-> r.calls,
                ret |-> IF r.ok
                        THEN [status |-> 200, success |-> TRUE, data |-> r.value]
                        ELSE IF r.error.type = "StorageServiceError"
                        THEN [status |-> 404, detail |-> r.error]
                        ELSE [status |-> 500, detail |-> "Internal server error"]]

MaxKeysLimit == 1000
DefaultMaxKeys == 100

RECURSIVE SumListedSizes(_)
SumListedSizes(files) ==
    IF files = <<>> THEN 0
    ELSE (IF "size" \in DOMAIN Head(files) THEN Head(files).size ELSE 0)
         + SumListedSizes(Tail(files))

\* a buggy variant: max_keys = 0 is let through
HandleListFilesAllowsZero(st, prefix, max_keys, listFault, headFails) ==
    IF max_keys < 0 \/ max_keys > MaxKeysLimit
    THEN [calls |-> <<>>,
          ret |-> [status |-> 400, detail |-> "max_keys must be between 1 and 1000"]]
    ELSE LET r == ListFiles(st, prefix, max_keys, listFault, headFails)
         IN [calls |-> r.calls,
             ret |-> IF r.ok
                     THEN [status |-> 200, success |-> TRUE,
                           data |-> [files |-> r.value, total_files |-> Len(r.value),
                                     total_size |-> SumListedSizes(r.value),
                                     prefix |-> prefix, max_keys |-> max_keys]]
                     ELSE [status |-> 500, detail |-> r.error]]

\* GET /upload/list
HandleListFiles(st, prefix, max_keys, listFault, headFails) ==
    IF max_keys <= 0 \/ max_keys > MaxKeysLimit
    THEN [calls |-> <<>>,
          ret |-> [status |-> 400, detail |-> "max_keys must be between 1 and 1000"]]
    ELSE LET r == ListFiles(st, prefix, max_keys, listFault, headFails)
         IN [calls |-> r.calls,
             ret |-> IF r.ok
                     THEN [status |-> 200, success |-> TRUE,
                           data |-> [files |-> r.value, total_files |-> Len(r.value),
                                     total_size |-> SumListedSizes(r.value),
                                     prefix |-> prefix, max_keys |-> max_keys]]
                     ELSE [status |-> 500, detail |-> r.error]]

ExpirationOk(expiration) == ~(expiration <= 0 \/ expiration > MaxExpiration)

\* what a backend would sign for a download / an upload
SignedDownloadUrl(file_id, filename, expiration) ==
    [signed |-> "get_object", key |-> S3Key(file_id, filename), expires_in |-> expiration]

SignedUploadPost(file_id, filename, content_type, expiration) ==
    [url |-> [signed |-> "post", expires_in |-> expiration],
     fields |-> [key |-> S3Key(file_id, filename), content_type |-> content_type]]

\* GET /upload/presigned-download/{file_id}
HandlePresignedDownload(file_id, filename, expiration, t) ==
    IF ~ExpirationOk(expiration)
    THEN [status |-> 400, detail |-> "Expiration time must be between 1 and 604800 seconds (7 days)"]
    ELSE LET vf == ValidateFilename(filename)
         IN IF ~vf.ok THEN [status |-> 400, detail |-> vf.err]
            ELSE IF "generate_presigned_download_url" \notin S3ServiceMethods
            THEN [status |-> 500, detail |-> "Internal server error"]
            ELSE [status |-> 200, success |-> TRUE,
                  data |-> [file_id |-> file_id, filename |-> vf.name,
                            download_url |-> SignedDownloadUrl(file_id, vf.name, expiration),
                            expires_in |-> expiration, expires_at |-> t + expiration]]

\* POST /upload/presigned-upload; fid is the identity uuid4() yields if reached
HandlePresignedUpload(filename, content_type, expiration, fid, t) ==
    IF ~ExpirationOk(expiration)
    THEN [minted |-> {},
          ret |-> [status |-> 400,
                   detail |-> "Expiration time must be between 1 and 604800 seconds (7 days)"]]
    ELSE LET vf == ValidateFilename(filename)
         IN IF ~vf.ok THEN [minted |-> {}, ret |-> [status |-> 400, detail |-> vf.err]]
            ELSE IF ~InSeq(content_type, AllowedTypes)
            THEN [minted |-> {}, ret |-> [status |-> 400, detail |-> "Content type not allowed"]]
            ELSE IF "generate_presigned_upload_url" \notin S3ServiceMethods
            THEN [minted |-> {fid}, ret |-> [status |-> 500, detail |-> "Internal server error"]]
            ELSE LET presigned_post ==
                         SignedUploadPost(fid, vf.name, content_type, expiration)
                 IN [minted |-> {fid},
                     ret |-> [status |-> 200, success |-> TRUE,
                              data |-> [file_id |-> fid, filename |-> vf.name,
                                        upload_url |-> presigned_post.url,
                                        upload_fields |-> presigned_post.fields,
                                        expires_in |-> expiration,
                                        expires_at |-> t + expiration]]]

-----------------------------------------------------------------------------
(* Inputs *)

NameTxt == <<"a", ".", "t", "x", "t">>
NameTxtB == <<"b", ".", "t", "x", "t">>
NameTxtPadded == <<" ", "a", ".", "t", "x", "t">>
NameExe == <<"a", ".", "e", "x", "e">>
NameNoExt == <<"q">>
NameSlash == <<"a", "/", "b">>

MaxSizeBytes == MaxFileSizeMb * BytesPerMb

EmptyContent == [sig |-> "none", len |-> 0]
Content(sig, len) == [sig |-> sig, len |-> len]

RequestNames == {<<>>, NameTxt, NameTxtPadded, NameExe, NameNoExt, NameSlash}

RequestContents ==
    {EmptyContent, Content("pdf", 1), Content("bin", 2), Content("err", 3),
     Content("pdf", MaxSizeBytes + 1)}

UploadFiles == [filename : RequestNames, content : RequestContents]

BatchFiles ==
    {[filename |-> NameTxtPadded, content |-> Content("bin", 2)],
     [filename |-> NameNoExt, content |-> Content("pdf", 1)],
     [filename |-> NameExe, content |-> EmptyContent],
     [filename |-> NameSlash, content |-> EmptyContent],
     [filename |-> NameTxt, content |-> Content("pdf", MaxSizeBytes + 1)]}

ServiceFiles ==
    {[content |-> Content("pdf", 1), filename |-> NameTxt, content_type |-> "text/plain"],
     [content |-> Content("bin", 2), filename |-> NameTxtB, content_type |-> "text/plain"]}

SeqsUpTo(S, n) == UNION {[1..k -> S] : k \in 0..n}

InjectiveSeqs(S, n) == {s \in [1..n -> S] : \A i, j \in 1..n : s[i] = s[j] => i = j}

Expirations == {-1, 0, 1, DefaultExpiration, MaxExpiration, MaxExpiration + 1}

PresignedNames == {NameTxtPadded, NameSlash}
PresignedTypes == {"text/plain", "application/zip"}

BatchFaults == {"none", "ClientError"}

\* an optional file_id / file_ids argument: absent (None), or given
NoId == [given |-> FALSE]
OptionalIds == {NoId} \cup {[given |-> TRUE, id |-> i] : i \in IDs}
OptionalIdLists == {NoId} \cup {[given |-> TRUE, ids |-> s] : s \in SeqsUpTo(IDs, MaxBatch)}

ListPrefixes == {PrefixAll, PrefixOther} \cup {PrefixOfId(i) : i \in IDs}

FileIdTexts == [form : UuidForms \cup {"malformed"}, id : IDs]

MaxKeysTried == {-1, 0, 1, 2, DefaultMaxKeys, MaxKeysLimit, MaxKeysLimit + 1}

NoReq == [op |-> "none"]
NoRet == [status |-> 0]
NoPrev == [seen |-> FALSE]

-----------------------------------------------------------------------------
(* The state machine.  A request is handled in one step, which leaves its     *)
(* outcome in req, ret and calls; Respond hands the outcome to the caller.    *)
(* A caller may repeat the read it has just been answered.                    *)

Init ==
    /\ store = EmptyStore
    /\ now = 0
    /\ used = {}
    /\ req = NoReq
    /\ ret = NoRet
    /\ calls = <<>>
    /\ prev = NoPrev
    /\ log = <<>>
    /\ upload_path = DefaultUploadPath

Idle == req = NoReq

Tick ==
    /\ now < MaxTime
    /\ now' = now + 1
    /\ UNCHANGED <<upload_path, log, store, used, req, ret, calls, prev>>

Respond ==
    /\ ~Idle
    /\ req' = NoReq /\ ret' = NoRet /\ calls' = <<>> /\ prev' = NoPrev /\ log' = <<>>
    /\ UNCHANGED <<upload_path, store, now, used>>

WithinBounds(st) == Cardinality(DOMAIN st) <= MaxObjects

FreshIds == IDs \ used

UploadSingleFile ==
    /\ Idle
    /\ \E file \in UploadFiles :
        /\ req' = [op |-> "upload_single", file |-> file]
        /\ IF ValidateUpload(file).ok
           THEN \E fid \in FreshIds, fault \in Faults :
                   \E h \in {HandleUploadSingle(store, file, fid, fault, now)} :
                      /\ WithinBounds(h.store)
                      /\ store' = h.store /\ ret' = h.ret /\ calls' = h.calls
                      /\ used' = used \cup h.minted /\ log' = h.log
           ELSE \E h \in {HandleUploadSingle(store, file, 0, "none", now)} :
                   /\ store' = h.store /\ ret' = h.ret /\ calls' = h.calls
                   /\ used' = used \cup h.minted /\ log' = h.log
    /\ UNCHANGED <<upload_path, now, prev>>

NumValid(files) == Cardinality({i \in 1..Len(files) : ValidateUpload(files[i]).ok})

UploadMultipleFilesRoute ==
    /\ Idle
    /\ \E n \in 1..MaxBatch :
        \E files \in [1..n -> BatchFiles] :
          \E ids \in InjectiveSeqs(FreshIds, NumValid(files)) :
            \E faults \in [1..NumValid(files) -> BatchFaults] :
              \E h \in {HandleUploadMultiple(store, files, ids, faults, now)} :
                 /\ WithinBounds(h.store)
                 /\ req' = [op |-> "upload_multiple", files |-> files]
                 /\ store' = h.store /\ ret' = h.ret /\ calls' = h.calls
                 /\ used' = used \cup h.minted /\ log' = h.log
    /\ UNCHANGED <<upload_path, now, prev>>

GetPresignedDownloadUrl ==
    /\ Idle
    /\ \E file_id \in IDs, filename \in PresignedNames, expiration \in Expirations :
        /\ req' = [op |-> "presigned_download", file_id |-> file_id,
                   filename |-> filename, expiration |-> expiration, at |-> now]
        /\ ret' = HandlePresignedDownload(file_id, filename, expiration, now)
    /\ calls' = <<>>
    /\ UNCHANGED <<upload_path, log, store, now, used, prev>>

GetPresignedUploadUrl ==
    /\ Idle
    /\ \E filename \in PresignedNames, content_type \in PresignedTypes,
          expiration \in Expirations :
        /\ req' = [op |-> "presigned_upload", filename |-> filename,
                   content_type |-> content_type, expiration |-> expiration, at |-> now]
        /\ IF HandlePresignedUpload(filename, content_type, expiration, 0, now).minted = {}
           THEN /\ ret' = HandlePresignedUpload(filename, content_type, expiration, 0, now).ret
                /\ used' = used
           ELSE \E fid \in FreshIds :
                   LET h == HandlePresignedUpload(filename, content_type, expiration, fid, now)
                   IN ret' = h.ret /\ used' = used \cup h.minted
    /\ calls' = <<>>
    /\ UNCHANGED <<upload_path, log, store, now, prev>>

Outcome(r) == IF r.ok THEN [ok |-> TRUE, value |-> r.value] ELSE [ok |-> FALSE, error |-> r.error]

S3UploadFile ==
    /\ Idle
    /\ \E file \in ServiceFiles, file_id \in OptionalIds, fault \in Faults :
        \E fid \in (IF file_id = NoId THEN FreshIds ELSE {file_id.id}) :
          \E r \in {UploadFile(store, file.content, file.filename, file.content_type,
                              fid, fault, now)} :
             /\ WithinBounds(r.store)
             /\ req' = [op |-> "upload_file", file |-> file, file_id |-> file_id]
             /\ store' = r.store /\ calls' = r.calls /\ ret' = Outcome(r)
             /\ used' = used \cup {fid}
    /\ UNCHANGED <<upload_path, log, now, prev>>

S3UploadMultipleFiles ==
    /\ Idle
    /\ \E files \in SeqsUpTo(ServiceFiles, MaxBatch), file_ids \in OptionalIdLists :
        \E ids \in (IF file_ids = NoId THEN InjectiveSeqs(FreshIds, Len(files))
                    ELSE {file_ids.ids}) :
          \E faults \in [1..Len(files) -> BatchFaults] :
            \E r \in {UploadMultipleFiles(store, files, ids, faults, now)} :
               /\ WithinBounds(r.store)
               /\ req' = [op |-> "upload_multiple_files", files |-> files,
                          file_ids |-> file_ids]
               /\ store' = r.store /\ calls' = r.calls /\ ret' = Outcome(r)
               /\ used' = used \cup {ids[i] : i \in 1..Len(ids)}
    /\ UNCHANGED <<upload_path, log, now, prev>>

\* a read request r may be served when idle, or again right after itself
Repeats(r) == req = r

NoFault(cs) == \A i \in 1..Len(cs) : cs[i].fault = "none"

\* the earlier outcome is kept when S3 answered every call of the earlier read
Remember(r) ==
    IF Repeats(r) /\ NoFault(calls) THEN [seen |-> TRUE, ret |-> ret] ELSE NoPrev

S3GetFileStatus ==
    \E file_id \in IDs, faults \in FaultPairs :
        \E r \in {GetFileStatus(store, file_id, faults[1], faults[2])},
           rq \in {[op |-> "get_file_status", file_id |-> file_id]} :
           /\ Idle \/ Repeats(rq)
           /\ req' = rq /\ calls' = r.calls /\ ret' = Outcome(r)
           /\ prev' = Remember(rq)
           /\ UNCHANGED <<upload_path, log, store, now, used>>

S3DeleteFile ==
    /\ Idle
    /\ \E file_id \in IDs, faults \in DeleteFaultPairs :
        \E r \in {DeleteFile(store, file_id, faults[1], faults[2])} :
           /\ req' = [op |-> "delete_file", file_id |-> file_id]
           /\ store' = r.store /\ calls' = r.calls /\ ret' = Outcome(r)
    /\ UNCHANGED <<upload_path, log, now, used, prev>>

\* the keys head_object is called for by list_files: those listed under the
\* upload path
HeadCalled(st, prefix, max_keys, listFault) ==
    IF listFault # "none" THEN {}
    ELSE {k \in {ListObjectsV2(st, prefix, max_keys)[n].Key :
                     n \in 1..Len(ListObjectsV2(st, prefix, max_keys))} :
             StartsWith(KeyText(k), UploadPath)}

\* what the metadata of an object stored by another writer of the bucket may
\* hold: nothing, an uploaded_at that is no ISO-8601 string, an empty
\* uploaded_at, or the fields upload_file writes
ForeignMetadata(file_id, filename) ==
    { [field \in {} |-> None],
      [uploaded_at |-> [text |-> "not a date"]],
      [original_filename |-> filename, uploaded_at |-> [text |-> ""]],
      [file_id |-> file_id, original_filename |-> filename,
       uploaded_at |-> IsoFormat(MaxTime)] }

\* the keys others write: under the upload path, where the reads of the service
\* look, and under another prefix
ForeignKeys ==
    {[prefix |-> UploadPath, id |-> file_id, name |-> NameTxt] : file_id \in IDs}
        \cup {[prefix |-> OtherPath, id |-> 1, name |-> NameTxt]}

\* the bucket is written by others too, with metadata of the writer's own
BucketWrite ==
    /\ Idle
    /\ \E key \in ForeignKeys :
        \E metadata \in IF key.prefix = OtherPath
                         THEN {[field \in {} |-> None]}
                         ELSE ForeignMetadata(key.id, key.name) :
          /\ WithinBounds(PutObject(store, key, None))
          /\ store' = PutObject(store, key,
                                [Body |-> Content("bin", 2), ContentType |-> "text/plain",
                                 Metadata |-> metadata, LastModified |-> now])
    /\ UNCHANGED <<upload_path, log, now, used, req, ret, calls, prev>>

S3ListFiles ==
    \E prefix \in ListPrefixes, max_keys \in {1, 100}, listFault \in Faults :
      \E headFails \in SUBSET HeadCalled(store, prefix, max_keys, listFault) :
        \E r \in {ListFiles(store, prefix, max_keys, listFault, headFails)},
           rq \in {[op |-> "list_files", prefix |-> prefix, max_keys |-> max_keys]} :
           /\ Idle \/ Repeats(rq)
           /\ req' = rq /\ calls' = r.calls /\ ret' = Outcome(r)
           /\ prev' = Remember(rq)
           /\ UNCHANGED <<upload_path, log, store, now, used>>

GetUploadStatusRoute ==
    /\ Idle
    /\ \E file_id \in FileIdTexts, faults \in FaultPairs :
        \E h \in {HandleGetUploadStatus(store, file_id, faults[1], faults[2])} :
           /\ req' = [op |-> "get_upload_status", file_id |-> file_id]
           /\ ret' = h.ret /\ calls' = h.calls
    /\ UNCHANGED <<upload_path, log, store, now, used, prev>>

ListFilesRoute ==
    /\ Idle
    /\ \E prefix \in ListPrefixes, max_keys \in MaxKeysTried, listFault \in Faults,
          headFails \in {{}, DOMAIN store} :
        \E h \in {HandleListFiles(store, prefix, max_keys, listFault, headFails)} :
           /\ req' = [op |-> "list_route", prefix |-> prefix, max_keys |-> max_keys]
           /\ ret' = h.ret /\ calls' = h.calls
    /\ UNCHANGED <<upload_path, log, store, now, used, prev>>

S3HealthCheck ==
    /\ Idle
    /\ \E fault \in Faults :
        \E r \in {HealthCheck(store, fault)} :
           /\ req' = [op |-> "health_check"]
           /\ store' = r.store /\ calls' = r.calls /\ ret' = Outcome(r)
    /\ UNCHANGED <<upload_path, log, now, used, prev>>

StorageHealthCheckRoute ==
    /\ Idle
    /\ \E fault \in Faults :
        \E h \in {HandleStorageHealth(store, fault)} :
           /\ req' = [op |-> "storage_health"]
           /\ store' = h.store /\ calls' = h.calls /\ ret' = h.ret
    /\ UNCHANGED <<upload_path, log, now, used, prev>>

Next ==
    \/ GetUploadStatusRoute
    \/ ListFilesRoute
    \/ S3HealthCheck
    \/ StorageHealthCheckRoute
    \/ Tick
    \/ Respond
    \/ UploadSingleFile
    \/ UploadMultipleFilesRoute
    \/ GetPresignedDownloadUrl
    \/ GetPresignedUploadUrl
    \/ S3UploadFile
    \/ S3UploadMultipleFiles
    \/ S3GetFileStatus
    \/ S3DeleteFile
    \/ S3ListFiles

Spec == Init /\ [][Next]_vars

\* the storage service under arbitrary callers
NextService ==
    \/ Tick
    \/ Respond
    \/ S3UploadFile
    \/ S3GetFileStatus
    \/ S3DeleteFile
    \/ S3ListFiles

SpecService == Init /\ [][NextService]_vars

\* the life of the objects of an identity: upload, status, delete
NextLifecycle ==
    \/ Tick
    \/ Respond
    \/ S3UploadFile
    \/ S3GetFileStatus
    \/ S3DeleteFile

SpecLifecycle == Init /\ [][NextLifecycle]_vars

\* reads of a bucket that others write too
NextShared ==
    \/ Respond
    \/ BucketWrite
    \/ S3GetFileStatus
    \/ S3ListFiles

SpecShared == Init /\ [][NextShared]_vars

NextBatch ==
    \/ Respond
    \/ S3UploadMultipleFiles

SpecBatch == Init /\ [][NextBatch]_vars

\* the upload routes
NextHandlers ==
    \/ Respond
    \/ UploadSingleFile
    \/ UploadMultipleFilesRoute
    \/ GetPresignedUploadUrl

SpecHandlers == Init /\ [][NextHandlers]_vars

\* the read routes and the health probe, over a bucket filled by uploads
NextRoutes ==
    \/ Respond
    \/ UploadSingleFile
    \/ GetUploadStatusRoute
    \/ ListFilesRoute
    \/ S3HealthCheck
    \/ StorageHealthCheckRoute

SpecRoutes == Init /\ [][NextRoutes]_vars

\* the operations that derive keys, for a service configured with any upload path
UploadPaths ==
    {<<>>, <<"/">>, <<"u">>, <<"u", "/">>, <<"u", "/", "/">>, DefaultUploadPath}

InitKeys ==
    /\ store = EmptyStore
    /\ now = 0
    /\ used = {}
    /\ req = NoReq
    /\ ret = NoRet
    /\ calls = <<>>
    /\ prev = NoPrev
    /\ log = <<>>
    /\ upload_path \in UploadPaths

NextKeys ==
    \/ Respond
    \/ S3UploadFile
    \/ S3GetFileStatus
    \/ S3DeleteFile

SpecKeys == InitKeys /\ [][NextKeys]_vars

\* the five operations of the service that raise
NextFailures ==
    \/ Respond
    \/ S3UploadFile
    \/ S3UploadMultipleFiles
    \/ S3GetFileStatus
    \/ S3DeleteFile
    \/ S3ListFiles

SpecFailures == Init /\ [][NextFailures]_vars

NextPresigned ==
    \/ Tick
    \/ Respond
    \/ GetPresignedDownloadUrl
    \/ GetPresignedUploadUrl

SpecPresigned == Init /\ [][NextPresigned]_vars

-----------------------------------------------------------------------------
(* validate_filename on its own: every filename up to MaxNameLen characters  *)
(* over FilenameChars, and names around the length limit                      *)

FilenameChars == {" ", "\t", ".", "/", "\\", "<", ">", ":", "\"", "|", "?", "*", "a"}

Repeat(c, n) == [i \in 1..n |-> c]

LongNames ==
    {Repeat("a", MaxFilenameLen), Repeat("a", MaxFilenameLen + 1),
     <<" ">> \o Repeat("a", MaxFilenameLen) \o <<"\t">>,
     <<" ">> \o Repeat("a", MaxFilenameLen + 1),
     Repeat("a", MaxFilenameLen) \o <<"?">>}

FilenameInputs == SeqsUpTo(FilenameChars, MaxNameLen) \cup LongNames

InitFilename ==
    /\ store = EmptyStore /\ now = 0 /\ used = {} /\ calls = <<>> /\ prev = NoPrev
    /\ log = <<>> /\ upload_path = DefaultUploadPath
    /\ ret = NoRet
    /\ \E filename \in FilenameInputs : req = [op |-> "validate_filename", filename |-> filename]

CallValidateFilename ==
    /\ req.op = "validate_filename"
    /\ ret = NoRet
    /\ ret' = [result |-> ValidateFilename(req.filename)]
    /\ UNCHANGED <<upload_path, log, store, now, used, req, calls, prev>>

SpecFilename == InitFilename /\ [][CallValidateFilename]_vars

\* validate_file_size on its own: sizes around zero and around each ceiling
SizeLimits == 0..MaxMbTried \cup {MaxFileSizeMb}

FileSizes ==
    (-2..2) \cup {m * BytesPerMb + d : m \in SizeLimits, d \in {-1, 0, 1}}

InitSize ==
    /\ store = EmptyStore /\ now = 0 /\ used = {} /\ calls = <<>> /\ prev = NoPrev
    /\ log = <<>> /\ upload_path = DefaultUploadPath
    /\ ret = NoRet
    /\ \E file_size \in FileSizes, max_size_mb \in SizeLimits :
          req = [op |-> "validate_file_size", file_size |-> file_size,
                 max_size_mb |-> max_size_mb]

CallValidateFileSize ==
    /\ req.op = "validate_file_size"
    /\ ret = NoRet
    /\ ret' = [result |-> ValidateFileSize(req.file_size, req.max_size_mb)]
    /\ UNCHANGED <<upload_path, log, store, now, used, req, calls, prev>>

SpecSize == InitSize /\ [][CallValidateFileSize]_vars

\* validate_file_type on its own
NameDotfile == <<".", "t", "x", "t">>

TypeNames == {<<>>, NameTxt, NameExe, NameNoExt, NameDotfile}

TypeContents ==
    {EmptyContent, Content("pdf", 1), Content("bin", 2), Content("err", 3)}

AllowLists ==
    {AllowedTypes, <<"text/plain">>, <<"application/octet-stream", "application/pdf">>,
     <<"application">>, <<"application/*">>, <<"*/*">>, <<"TEXT/PLAIN">>,
     <<" text/plain">>, <<>>}

InitType ==
    /\ store = EmptyStore /\ now = 0 /\ used = {} /\ calls = <<>> /\ prev = NoPrev
    /\ log = <<>> /\ upload_path = DefaultUploadPath
    /\ ret = NoRet
    /\ \E filename \in TypeNames, allowed_types \in AllowLists,
          file_content \in TypeContents :
          req = [op |-> "validate_file_type", filename |-> filename,
                 allowed_types |-> allowed_types, file_content |-> file_content]

CallValidateFileType ==
    /\ req.op = "validate_file_type"
    /\ ret = NoRet
    /\ ret' = [result |-> ValidateFileType(req.filename, req.allowed_types,
                                           req.file_content)]
    /\ UNCHANGED <<upload_path, log, store, now, used, req, calls, prev>>

SpecType == InitType /\ [][CallValidateFileType]_vars

-----------------------------------------------------------------------------
(* Upload requests in flight together.  A handler gives way to the others     *)
(* where it awaits file.read(): POST /upload/single before its one write,     *)
(* POST /upload/multiple before each turn of its loop.  req and ret hold one  *)
(* entry for each request in flight.                                           *)

\* two requests in flight: an upload interferes with another by writing or
\* removing its key, which takes two writers
Flights == {1, 2}

FlightFiles ==
    {[filename |-> NameTxt, content |-> Content("pdf", 1)],
     [filename |-> NameExe, content |-> EmptyContent]}

InitFlights ==
    /\ store = EmptyStore
    /\ now = 0
    /\ used = {}
    /\ req = [s \in Flights |-> NoReq]
    /\ ret = [s \in Flights |-> NoRet]
    /\ calls = <<>>
    /\ prev = NoPrev
    /\ log = <<>>
    /\ upload_path = DefaultUploadPath

\* uploaded_files, total_size and what else the loop keeps, before its first turn
EmptyAcc ==
    [store |-> EmptyStore, uploaded_files |-> <<>>, total_size |-> 0, calls |-> <<>>,
     n |-> 0, log |-> <<>>]

\* uuid4() for a file that reaches upload_file; no identity is drawn for a
\* file that fails validation
IdsFor(file) == IF ValidateUpload(file).ok THEN FreshIds ELSE {0}

\* POST /upload/single, from the return of file.read() to its response
FlightSingle(s) ==
    /\ req[s] = NoReq
    /\ \E file \in FlightFiles :
        \E fid \in IdsFor(file), fault \in IF ValidateUpload(file).ok THEN Faults ELSE {"none"} :
          \E h \in {HandleUploadSingle(store, file, fid, fault, now)} :
             /\ WithinBounds(h.store)
             /\ req' = [req EXCEPT ![s] = [op |-> "upload_single", file |-> file]]
             /\ ret' = [ret EXCEPT ![s] = h.ret]
             /\ store' = h.store
             /\ used' = used \cup h.minted
    /\ UNCHANGED <<upload_path, now, prev, calls, log>>

\* POST /upload/multiple is entered
FlightBatchStart(s) ==
    /\ req[s] = NoReq
    /\ \E n \in 1..MaxBatch :
        \E files \in [1..n -> FlightFiles] :
           req' = [req EXCEPT ![s] = [op |-> "upload_multiple", files |-> files, done |-> 0,
                                      ids |-> <<>>, faults |-> <<>>, acc |-> EmptyAcc]]
    /\ UNCHANGED <<upload_path, store, now, used, ret, prev, calls, log>>

\* a buggy variant: each turn writes the bucket as the request last saw it
FlightBatchTurnStale(s) ==
    /\ req[s].op = "upload_multiple" /\ ret[s] = NoRet
    /\ req[s].done < Len(req[s].files)
    /\ \E fid \in IdsFor(req[s].files[req[s].done + 1]), fault \in BatchFaults :
        \E nxt \in {BatchStep(req[s].acc, req[s].files[req[s].done + 1],
                               Append(req[s].ids, fid), Append(req[s].faults, fault), now)} :
           /\ WithinBounds(nxt.store)
           /\ store' = nxt.store
           /\ used' = IF nxt.n > req[s].acc.n THEN used \cup {fid} ELSE used
           /\ req' = [req EXCEPT ![s] =
                        [@ EXCEPT !.done = @ + 1,
                                  !.ids = IF nxt.n > req[s].acc.n THEN Append(@, fid) ELSE @,
                                  !.faults = IF nxt.n > req[s].acc.n THEN Append(@, fault) ELSE @,
                                  !.acc = nxt]]
    /\ UNCHANGED <<upload_path, now, ret, prev, calls, log>>

\* one turn of the loop of POST /upload/multiple, on the bucket as it is now
FlightBatchTurn(s) ==
    /\ req[s].op = "upload_multiple" /\ ret[s] = NoRet
    /\ req[s].done < Len(req[s].files)
    /\ \E fid \in IdsFor(req[s].files[req[s].done + 1]), fault \in BatchFaults :
        \E nxt \in {BatchStep([req[s].acc EXCEPT !.store = store],
                               req[s].files[req[s].done + 1],
                               Append(req[s].ids, fid), Append(req[s].faults, fault), now)} :
           /\ WithinBounds(nxt.store)
           /\ store' = nxt.store
           /\ used' = IF nxt.n > req[s].acc.n THEN used \cup {fid} ELSE used
           /\ req' = [req EXCEPT ![s] =
                        [@ EXCEPT !.done = @ + 1,
                                  !.ids = IF nxt.n > req[s].acc.n THEN Append(@, fid) ELSE @,
                                  !.faults = IF nxt.n > req[s].acc.n THEN Append(@, fault) ELSE @,
                                  !.acc = [nxt EXCEPT !.store = EmptyStore]]]
    /\ UNCHANGED <<upload_path, now, ret, prev, calls, log>>

\* POST /upload/multiple after its loop
FlightBatchEnd(s) ==
    /\ req[s].op = "upload_multiple" /\ ret[s] = NoRet
    /\ req[s].done = Len(req[s].files)
    /\ ret' = [ret EXCEPT ![s] = BatchResponse(req[s].acc, req[s].ids).ret]
    /\ UNCHANGED <<upload_path, store, now, used, req, prev, calls, log>>

FlightRespond(s) ==
    /\ ret[s] # NoRet
    /\ req' = [req EXCEPT ![s] = NoReq]
    /\ ret' = [ret EXCEPT ![s] = NoRet]
    /\ UNCHANGED <<upload_path, store, now, used, prev, calls, log>>

NextFlights ==
    \E s \in Flights :
        \/ FlightSingle(s)
        \/ FlightBatchStart(s)
        \/ FlightBatchTurn(s)
        \/ FlightBatchEnd(s)
        \/ FlightRespond(s)

SpecFlights == InitFlights /\ [][NextFlights]_vars

-----------------------------------------------------------------------------
(* backend/app/main.py: the orchestrator.  Its trips, invoices, users and     *)
(* storage routes depend on get_current_user and pass the request on to the  *)
(* database or the storage service.  calls holds the requests it has sent.   *)

\* the routes declared with Depends(get_current_user): the service each passes
\* its request to, and the status it hands through as success
ProxyRoutes ==
    {[name |-> "create_trip", service |-> "database", success |-> 201],
     [name |-> "get_trips", service |-> "database", success |-> 200],
     [name |-> "get_trip", service |-> "database", success |-> 200],
     [name |-> "update_trip", service |-> "database", success |-> 200],
     [name |-> "delete_trip", service |-> "database", success |-> 200],
     [name |-> "create_invoice", service |-> "database", success |-> 201],
     [name |-> "get_invoices", service |-> "database", success |-> 200],
     [name |-> "get_invoice", service |-> "database", success |-> 200],
     [name |-> "update_invoice", service |-> "database", success |-> 200],
     [name |-> "start_invoice_processing", service |-> "database", success |-> 200],
     [name |-> "complete_invoice_processing", service |-> "database", success |-> 200],
     [name |-> "fail_invoice_processing", service |-> "database", success |-> 200],
     [name |-> "get_users", service |-> "database", success |-> 200],
     [name |-> "get_user", service |-> "database", success |-> 200],
     [name |-> "upload_file", service |-> "storage", success |-> 200],
     [name |-> "get_files", service |-> "storage", success |-> 200]}

BearerPrefix == <<"B", "e", "a", "r", "e", "r", " ">>

\* s.split(" ")[1], for s with a space in it: what stands between the first
\* space and the next
RECURSIVE UpToSpace(_)
UpToSpace(s) ==
    IF s = <<>> \/ s[1] = " " THEN <<>> ELSE <<s[1]>> \o UpToSpace(Tail(s))

RECURSIVE AfterSpace(_)
AfterSpace(s) ==
    IF s = <<>> THEN <<>> ELSE IF s[1] = " " THEN Tail(s) ELSE AfterSpace(Tail(s))

SplitSecond(s) == UpToSpace(AfterSpace(s))

\* the Authorization header: absent, or its text
NoHeader == [present |-> FALSE]
HeaderOf(text) == [present |-> TRUE, text |-> text]

\* how a request sent to another service ends: a response, a timeout
\* (httpx.TimeoutException), or no connection (another httpx.RequestError)
Answered(status) == [kind |-> "response", status |-> status]
TimedOut == [kind |-> "timeout"]
Unreachable == [kind |-> "unreachable"]

\* a buggy variant: a token is verified only when the auth service answers
GetCurrentUserFailsOpen(authorization, verify) ==
    IF ~authorization.present \/ authorization.text = <<>>
          \/ ~StartsWith(authorization.text, BearerPrefix)
    THEN [ok |-> FALSE, calls |-> <<>>, status |-> 401]
    ELSE LET token == SplitSecond(authorization.text)
             call == [service |-> "auth", path |-> "/api/v1/auth/verify",
                      authorization |-> BearerPrefix \o token, outcome |-> verify]
         IN CASE verify.kind = "timeout" ->
                   [ok |-> TRUE, calls |-> <<call>>, user |-> [accessToken |-> token]]
              [] verify.kind = "unreachable" ->
                   [ok |-> TRUE, calls |-> <<call>>, user |-> [accessToken |-> token]]
              [] verify.status = 200 ->
                   [ok |-> TRUE, calls |-> <<call>>, user |-> [accessToken |-> token]]
              [] verify.status = 401 -> [ok |-> FALSE, calls |-> <<call>>, status |-> 401]
              [] OTHER -> [ok |-> FALSE, calls |-> <<call>>, status |-> verify.status]

\* get_current_user
GetCurrentUser(authorization, verify) ==
    IF ~authorization.present \/ authorization.text = <<>>
          \/ ~StartsWith(authorization.text, BearerPrefix)
    THEN [ok |-> FALSE, calls |-> <<>>, status |-> 401]
    ELSE LET token == SplitSecond(authorization.text)
             call == [service |-> "auth", path |-> "/api/v1/auth/verify",
                      authorization |-> BearerPrefix \o token, outcome |-> verify]
         IN CASE verify.kind = "timeout" -> [ok |-> FALSE, calls |-> <<call>>, status |-> 504]
              [] verify.kind = "unreachable" ->
                   [ok |-> FALSE, calls |-> <<call>>, status |-> 503]
              [] verify.status = 200 ->
                   [ok |-> TRUE, calls |-> <<call>>, user |-> [accessToken |-> token]]
              [] verify.status = 401 -> [ok |-> FALSE, calls |-> <<call>>, status |-> 401]
              [] OTHER -> [ok |-> FALSE, calls |-> <<call>>, status |-> verify.status]

\* a route of ProxyRoutes: the dependency, then the request to its service
HandleProxy(route, authorization, verify, downstream) ==
    LET current_user == GetCurrentUser(authorization, verify)
    IN IF ~current_user.ok
       THEN [calls |-> current_user.calls, ret |-> [status |-> current_user.status]]
       ELSE LET call == [service |-> route.service, path |-> route.name,
                         authorization |-> BearerPrefix \o current_user.user.accessToken,
                         outcome |-> downstream]
            IN [calls |-> current_user.calls \o <<call>>,
                ret |-> CASE downstream.kind = "timeout" -> [status |-> 504]
                          [] downstream.kind = "unreachable" -> [status |-> 503]
                          [] downstream.status = route.success ->
                               [status |-> 200, passed |-> TRUE]
                          [] OTHER -> [status |-> downstream.status]]

AuthorizationsTried ==
    {NoHeader, HeaderOf(<<>>), HeaderOf(<<"B", "e", "a", "r", "e", "r">>),
     HeaderOf(<<"b", "e", "a", "r", "e", "r", " ", "t">>),
     HeaderOf(<<"B", "a", "s", "i", "c", " ", "t">>),
     HeaderOf(BearerPrefix), HeaderOf(BearerPrefix \o <<"t">>),
     HeaderOf(BearerPrefix \o <<"t", " ", "u">>)}

VerifyOutcomes == {Answered(200), Answered(401), Answered(403), Answered(500), TimedOut, Unreachable}

DownstreamOutcomes == {Answered(200), Answered(201), Answered(404), TimedOut, Unreachable}

ProxyRequest ==
    /\ Idle
    /\ \E route \in ProxyRoutes, authorization \in AuthorizationsTried,
          verify \in VerifyOutcomes, downstream \in DownstreamOutcomes :
        \E h \in {HandleProxy(route, authorization, verify, downstream)} :
           /\ req' = [op |-> "proxy", route |-> route, authorization |-> authorization]
           /\ ret' = h.ret /\ calls' = h.calls
    /\ UNCHANGED <<upload_path, log, store, now, used, prev>>

NextProxy ==
    \/ Respond
    \/ ProxyRequest

SpecProxy == Init /\ [][NextProxy]_vars

-----------------------------------------------------------------------------
(* get_file_status and delete_file call S3 twice.  Here each call is a step   *)
(* of its own, and the request of another caller may write or remove objects *)
(* between the two.  S3 answers the calls; a key that is gone by the time    *)
(* head_object asks for it is answered with a ClientError.                   *)

Pending == req # NoReq /\ ret = NoRet

\* get_file_status after its listing: head_object for the first key listed,
\* on the bucket as it is by then
GetFileStatusHead(st, file_id, obj) ==
    LET gone == obj.Key \notin DOMAIN st
        headCall == [api |-> "head_object", key |-> obj.Key,
                     fault |-> IF gone THEN "ClientError" ELSE "none"]
    IN IF gone
       THEN [ok |-> FALSE, calls |-> <<headCall>>,
             error |-> TranslateFault("ClientError", "get file status")]
       ELSE LET metadata == st[obj.Key].Metadata
                parsable == /\ "uploaded_at" \in DOMAIN metadata
                            /\ IsIsoString(metadata.uploaded_at)
            IN [ok |-> TRUE, calls |-> <<headCall>>,
                value |-> [file_id |-> file_id,
                           filename |-> MetaGet(metadata, "original_filename",
                                                <<"u", "n", "k", "n", "o", "w", "n">>),
                           status |-> "uploaded",
                           storage_url |-> obj.Key,
                           uploaded_at |-> IF parsable
                                           THEN FromIsoFormat(metadata.uploaded_at)
                                           ELSE obj.LastModified]]

\* the listing of get_file_status or delete_file; with nothing listed the
\* request ends here, not found
StepList(op) ==
    /\ Idle
    /\ \E file_id \in IDs :
        \E contents \in {ListObjects(store, PrefixOfId(file_id))} :
          /\ req' = [op |-> op, file_id |-> file_id, contents |-> contents]
          /\ calls' = <<[api |-> "list_objects_v2", prefix |-> PrefixOfId(file_id),
                         fault |-> "none"]>>
          /\ ret' = IF contents = <<>>
                    THEN Outcome(DeleteFile(store, file_id, "none", "none"))
                    ELSE NoRet
    /\ UNCHANGED <<upload_path, log, store, now, used, prev>>

StepStatusList == StepList("get_file_status")

StepDeleteList == StepList("delete_file")

StepStatusHead ==
    /\ Pending /\ req.op = "get_file_status"
    /\ \E r \in {GetFileStatusHead(store, req.file_id, req.contents[1])} :
          /\ ret' = Outcome(r)
          /\ calls' = calls \o r.calls
    /\ UNCHANGED <<upload_path, log, store, now, used, req, prev>>

\* a buggy variant: whatever lies under the prefix by now is deleted
StepDeleteRemovePrefix ==
    /\ Pending /\ req.op = "delete_file"
    /\ \E objects_to_delete \in {{k \in DOMAIN store : KeyHasPrefix(k, PrefixOfId(req.file_id))}} :
          /\ store' = DeleteObjects(store, objects_to_delete)
          /\ calls' = Append(calls, [api |-> "delete_objects", keys |-> objects_to_delete,
                                     fault |-> "none"])
    /\ ret' = [ok |-> TRUE, value |-> TRUE]
    /\ UNCHANGED <<upload_path, log, now, used, req, prev>>

\* delete_file after its listing: delete_objects for the keys listed
StepDeleteRemove ==
    /\ Pending /\ req.op = "delete_file"
    /\ \E objects_to_delete \in {{req.contents[i].Key : i \in 1..Len(req.contents)}} :
          /\ store' = DeleteObjects(store, objects_to_delete)
          /\ calls' = Append(calls, [api |-> "delete_objects", keys |-> objects_to_delete,
                                     fault |-> "none"])
    /\ ret' = [ok |-> TRUE, value |-> TRUE]
    /\ UNCHANGED <<upload_path, log, now, used, req, prev>>

\* between the two calls, the upload_file of another request stores an object
OtherUpload ==
    /\ Pending
    /\ \E file \in ServiceFiles, fid \in IDs :
        \E r \in {UploadFile(store, file.content, file.filename, file.content_type,
                            fid, "none", now)} :
           /\ WithinBounds(r.store)
           /\ store' = r.store
           /\ used' = used \cup {fid}
    /\ UNCHANGED <<upload_path, log, now, req, ret, calls, prev>>

\* between the two calls, the delete_file of another request removes what it
\* had listed
OtherDelete ==
    /\ Pending
    /\ \E fid \in IDs :
          /\ ListObjects(store, PrefixOfId(fid)) # <<>>
          /\ store' = DeleteFile(store, fid, "none", "none").store
    /\ UNCHANGED <<upload_path, log, now, used, req, ret, calls, prev>>

StepRespond == ret # NoRet /\ Respond

NextSteps ==
    \/ StepRespond
    \/ S3UploadFile
    \/ StepStatusList
    \/ StepStatusHead
    \/ StepDeleteList
    \/ StepDeleteRemove
    \/ OtherUpload
    \/ OtherDelete

SpecSteps == Init /\ [][NextSteps]_vars

-----------------------------------------------------------------------------
(* Claims *)

ReservedSequences ==
    {<<"/">>, <<"\\">>, <<".", ".">>, <<"<">>, <<">">>, <<":">>, <<"\"">>, <<"|">>,
     <<"?">>, <<"*">>}

\* s is f without its leading and trailing whitespace
IsTrimOf(s, f) ==
    \E i \in 1..Len(f), j \in 1..Len(f) :
        /\ i <= j
        /\ s = SubSeq(f, i, j)
        /\ f[i] \notin WhiteSpace /\ f[j] \notin WhiteSpace
        /\ \A k \in 1..Len(f) : (k < i \/ k > j) => f[k] \in WhiteSpace

Validated == req.op = "validate_filename" /\ ret # NoRet

\* C10: an accepted filename comes back trimmed of surrounding whitespace, free
\* of the reserved sequences and at most 255 characters long; a filename that
\* contains a reserved sequence is rejected with an error citing a reserved
\* sequence it contains; an empty or whitespace-only filename is rejected.
C10_FilenameContract ==
    Validated =>
        LET f == req.filename
            r == ret.result
        IN /\ r.ok => /\ IsTrimOf(r.name, f)
                      /\ \A d \in ReservedSequences : ~Contains(r.name, d)
                      /\ Len(r.name) <= 255
           /\ (\E d \in ReservedSequences : Contains(f, d)) =>
                  /\ ~r.ok
                  /\ "invalid_char" \in DOMAIN r
                  /\ r.invalid_char \in ReservedSequences
                  /\ Contains(f, r.invalid_char)
           /\ (\A k \in 1..Len(f) : f[k] \in WhiteSpace) => ~r.ok

\* a padded name is accepted at exactly the length limit
C10_Witness ==
    /\ Validated
    /\ ret.result.ok
    /\ Len(ret.result.name) = 255
    /\ Len(req.filename) > 255

\* the elements of a set of numbers, ascending
RECURSIVE Ascending(_)
Ascending(S) ==
    IF S = {} THEN <<>>
    ELSE LET m == CHOOSE x \in S : \A y \in S : x <= y
         IN <<m>> \o Ascending(S \ {m})

BatchCalled == req.op = "upload_multiple_files"

IdsMatch == ~req.file_ids.given \/ Len(req.file_ids.ids) = Len(req.files)

\* every file was attempted, in turn
AttemptsEveryFile ==
    /\ Len(calls) = Len(req.files)
    /\ \A i \in 1..Len(calls) :
          /\ calls[i].api = "put_object"
          /\ calls[i].key.name = req.files[i].filename
          /\ req.file_ids.given => calls[i].key.id = req.file_ids.ids[i]

Succeeded == Ascending({i \in 1..Len(calls) : calls[i].fault = "none"})

\* the call returns the results of exactly the files whose write succeeded, each
\* of which is in the bucket, and raises only when there is none
ReturnsTheSucceeded ==
    /\ ret.ok <=> Succeeded # <<>>
    /\ ~ret.ok => ret.error.type = "StorageServiceError"
    /\ ret.ok =>
          /\ Len(ret.value) = Len(Succeeded)
          /\ \A k \in 1..Len(Succeeded) :
                LET file == req.files[Succeeded[k]]
                    key == calls[Succeeded[k]].key
                IN /\ ret.value[k].filename = file.filename
                   /\ ret.value[k].file_size = file.content.len
                   /\ ret.value[k].file_type = file.content_type
                   /\ ret.value[k].file_id = key.id
                   /\ key \in DOMAIN store

\* C1 as stated: whatever the arguments, every file is attempted, the
\* succeeded ones are returned, and the call raises only when none succeeded.
C1_AsStated == BatchCalled => AttemptsEveryFile /\ ReturnsTheSucceeded

\* C1 amended: with file_ids omitted or as many as the files, every file is
\* attempted in turn, a failed file is skipped, the results of exactly the
\* succeeded files are returned and the call raises StorageServiceError only
\* when none succeeded; with a different number of file_ids the call raises
\* StorageServiceError without attempting any file.
C1_PartialSuccess ==
    BatchCalled =>
        IF IdsMatch THEN AttemptsEveryFile /\ ReturnsTheSucceeded
        ELSE ~ret.ok /\ ret.error.type = "StorageServiceError" /\ calls = <<>>

\* a failed file followed by a succeeded one, which is returned
C1_Witness ==
    /\ BatchCalled
    /\ Len(calls) = 2
    /\ calls[1].fault # "none" /\ calls[2].fault = "none"
    /\ ret.ok /\ Len(ret.value) = 1

BatchRouted == req.op = "upload_multiple"

\* the submitted files that pass validation, by position
ValidFiles == Ascending({i \in 1..Len(req.files) : ValidateUpload(req.files[i]).ok})

\* those of them whose write succeeded (the k-th valid file is the k-th call)
PersistedFiles ==
    Ascending({ValidFiles[k] : k \in {j \in 1..Len(ValidFiles) :
                                         j <= Len(calls) /\ calls[j].fault = "none"}})

RECURSIVE SumLengths(_, _)
SumLengths(files, positions) ==
    IF positions = <<>> THEN 0
    ELSE files[Head(positions)].content.len + SumLengths(files, Tail(positions))

\* the 200 envelope lists exactly the files at the given positions
Lists(positions) ==
    /\ ret.status = 200
    /\ Len(ret.data.uploaded_files) = Len(positions)
    /\ \A k \in 1..Len(positions) :
          /\ ret.data.uploaded_files[k].filename = ValidateUpload(req.files[positions[k]]).filename
          /\ ret.data.uploaded_files[k].file_size = req.files[positions[k]].content.len
    /\ ret.data.total_files = Len(positions)
    /\ ret.data.total_size = SumLengths(req.files, positions)

\* C2 as stated: K >= 1 valid files give K entries, total_files = K and
\* total_size the sum of the lengths of the K valid files.
C2_AsStated == (BatchRouted /\ Len(ValidFiles) >= 1) => Lists(ValidFiles)

\* C2 amended: the response lists exactly the K >= 1 files that are valid and
\* whose write succeeded, with total_files = K and total_size the sum of their
\* lengths; a valid file whose write failed is not counted.
C2_CountsThePersisted == (BatchRouted /\ Len(PersistedFiles) >= 1) => Lists(PersistedFiles)

\* two files submitted, one of them invalid, the other one listed
C2_Witness ==
    /\ BatchRouted
    /\ Len(req.files) = 2 /\ Len(ValidFiles) = 1 /\ Len(PersistedFiles) = 1
    /\ ret.status = 200 /\ ret.data.total_files = 1

\* C3: 200 only if at least one file was persisted, 400 if every file failed
\* at validation or at the write, and every valid file is attempted whatever
\* happened to the files before it.
C3_AllFailIs400 ==
    BatchRouted =>
        /\ ret.status = 200 => /\ PersistedFiles # <<>>
                               /\ \E i \in 1..Len(calls) :
                                     calls[i].fault = "none" /\ calls[i].key \in DOMAIN store
        /\ PersistedFiles = <<>> => ret.status = 400
        /\ Len(calls) = Len(ValidFiles)
        /\ \A k \in 1..Len(calls) :
              /\ calls[k].api = "put_object"
              /\ calls[k].key.name = ValidateUpload(req.files[ValidFiles[k]]).filename

\* a file fails at the write, the next one is still uploaded: 200
C3_Witness ==
    /\ BatchRouted
    /\ Len(calls) = 2 /\ calls[1].fault # "none" /\ calls[2].fault = "none"
    /\ ret.status = 200

\* every file fails, one at validation and one at the write: 400
C3_WitnessAllFail ==
    /\ BatchRouted
    /\ Len(req.files) = 2 /\ Len(calls) = 1 /\ calls[1].fault # "none"
    /\ ret.status = 400

AllowList == {"image/jpeg", "image/png", "image/gif", "application/pdf", "text/plain"}

\* the MIME type of an uploaded file: the type of its extension, else the type
\* its bytes are sniffed as, else none (the upload handlers never read the
\* Content-Type the client declares for the part)
RequestType(file) ==
    LET name == Strip(IF file.filename = <<>> THEN Unknown ELSE file.filename)
    IN IF GuessType(name) # None THEN GuessType(name)
       ELSE IF file.content.len > 0 THEN MagicFromBuffer(file.content)
       ELSE None

C4_WitnessUpload ==
    /\ req.op = "upload_single"
    /\ req.file.filename = NameExe /\ req.file.content = Content("pdf", 1)
    /\ ret.status = 400

HasObjects(st, file_id) == \E k \in DOMAIN st : k.id = file_id

\* C5: with S3 answering its calls, delete_file of an identity without objects
\* fails with not-found and changes nothing; delete_file of an identity with
\* objects returns True and leaves none of them; only an upload gives an
\* identity objects; and get_file_status of an identity without objects fails
\* with not-found.
C5_DeleteThenStatus ==
    [][ /\ (req = NoReq /\ req'.op = "delete_file" /\ NoFault(calls')) =>
              IF HasObjects(store, req'.file_id)
              THEN ret'.ok /\ ret'.value = TRUE /\ ~HasObjects(store', req'.file_id)
              ELSE ~ret'.ok /\ IsNotFound(ret'.error) /\ store' = store
        /\ \A i \in IDs : (~HasObjects(store, i) /\ HasObjects(store', i)) =>
              req'.op = "upload_file"
        /\ (req'.op = "get_file_status" /\ NoFault(calls')
                /\ ~HasObjects(store', req'.file_id)) =>
              (~ret'.ok /\ IsNotFound(ret'.error)) ]_vars

\* delete_file has returned True for an identity that had objects
C5_Witness ==
    /\ req.op = "delete_file"
    /\ ret.ok
    /\ Len(calls) = 2 /\ Cardinality(calls[2].keys) = 2
    /\ ~HasObjects(store, req.file_id)

StatusReturned == req.op = "get_file_status" /\ ret.ok

KeysOf(st, file_id) == {k \in DOMAIN st : k.id = file_id}

\* upload_file leaves the bytes, the type and the filename it was given under
\* the identity it returns
UploadStores ==
    (req = NoReq /\ req'.op = "upload_file" /\ ret'.ok) =>
        LET k == S3Key(ret'.value.file_id, req'.file.filename)
        IN /\ k \in DOMAIN store'
           /\ store'[k].Body = req'.file.content
           /\ store'[k].ContentType = req'.file.content_type
           /\ ret'.value.file_size = req'.file.content.len
           /\ ret'.value.file_type = req'.file.content_type

\* C6 as stated: the status record of an identity names the identity and, for
\* an object uploaded under it, the object's filename, size and type.
C6_AsStated ==
    StatusReturned =>
        \A k \in KeysOf(store, req.file_id) :
            /\ ret.value.file_id = req.file_id
            /\ ret.value.filename = k.name
            /\ "file_size" \in DOMAIN ret.value /\ ret.value.file_size = store[k].Body.len
            /\ "file_type" \in DOMAIN ret.value /\ ret.value.file_type = store[k].ContentType

\* what a status record is, for the identity it was asked for
StatusRecord ==
    StatusReturned =>
        /\ DOMAIN ret.value = {"file_id", "filename", "status", "storage_url", "uploaded_at"}
        /\ ret.value.file_id = req.file_id
        /\ ret.value.status = "uploaded"
        /\ Cardinality(KeysOf(store, req.file_id)) = 1 =>
              \A k \in KeysOf(store, req.file_id) :
                  /\ ret.value.filename = k.name
                  /\ ret.value.storage_url = k
                  /\ ret.value.uploaded_at = store[k].LastModified

\* C6 amended: after uploading bytes B with filename F under an identity that
\* holds no other object, the status of the returned identity is a record of
\* exactly file_id, filename, status, storage_url and uploaded_at, whose file_id
\* is that identity, whose filename is the F given to upload_file, whose status
\* is "uploaded" and whose storage_url is the object's; it has no size or type.
C6_RoundTrip == [][UploadStores /\ StatusRecord']_vars

\* the status of an identity with one object has been read
C6_Witness ==
    /\ StatusReturned
    /\ Cardinality(KeysOf(store, req.file_id)) = 1
    /\ ret.value.filename = NameTxtB

ReadOps == {"get_file_status", "list_files"}

\* C7: get_file_status and list_files leave the bucket unchanged, and the same
\* read served twice in a row (the clock may advance in between), S3 answering
\* every call, returns the same result.
C7_IdempotentRead ==
    [][ /\ req'.op \in ReadOps => store' = store
        /\ (prev'.seen /\ NoFault(calls')) => ret' = prev'.ret ]_vars

\* a status read repeated at a later time than the upload, with a result
C7_Witness ==
    /\ prev.seen
    /\ NoFault(calls)
    /\ req.op = "get_file_status" /\ ret.ok
    /\ now > ret.value.uploaded_at

\* a listing repeated, with a result
C7_WitnessList ==
    /\ prev.seen
    /\ NoFault(calls)
    /\ req.op = "list_files" /\ ret.ok /\ Len(ret.value) = 2

PresignedOps == {"presigned_download", "presigned_upload"}

\* the request passes every check a presigned handler makes before issuance
PresignedRequestValid ==
    /\ req.op \in PresignedOps
    /\ req.expiration >= 1 /\ req.expiration <= 604800
    /\ ValidateFilename(req.filename).ok
    /\ req.op = "presigned_upload" => req.content_type \in AllowList

\* C8 as stated: a presigned request with an expiration of 0, below 0 or above
\* 604800 is answered 400 with no backend call, and one with an accepted
\* expiration E is answered with expires_in = E and expires_at = issuance + E.
C8_AsStated ==
    /\ (req.op \in PresignedOps /\ (req.expiration <= 0 \/ req.expiration > 604800)) =>
           (ret.status = 400 /\ calls = <<>>)
    /\ PresignedRequestValid =>
           /\ "data" \in DOMAIN ret
           /\ ret.data.expires_in = req.expiration
           /\ ret.data.expires_at = req.at + req.expiration

\* C9 as stated: a valid presigned request is answered 200 with the signed
\* url (and, for an upload, the form fields and the minted identity) and the
\* expiry.
C9_AsStated ==
    PresignedRequestValid =>
        /\ ret.status = 200
        /\ "data" \in DOMAIN ret
        /\ IF req.op = "presigned_download"
           THEN {"download_url", "expires_in", "expires_at"} \subseteq DOMAIN ret.data
           ELSE {"file_id", "upload_url", "upload_fields", "expires_in", "expires_at"}
                    \subseteq DOMAIN ret.data

SizeChecked == req.op = "validate_file_size" /\ ret # NoRet

\* C11: validate_file_size accepts a size exactly when it is at least 1 and at
\* most max_size_mb * 1,048,576 bytes; a size of 0 or below and a size above
\* the ceiling are rejected, a size exactly at the ceiling is accepted.
C11_SizeContract ==
    SizeChecked =>
        /\ (req.file_size <= 0) => ~ret.result.ok
        /\ (req.file_size > req.max_size_mb * 1048576) => ~ret.result.ok
        /\ (req.file_size >= 1 /\ req.file_size <= req.max_size_mb * 1048576) =>
               ret.result.ok

\* a file exactly at the configured ceiling of 100 MB has been accepted
C11_Witness ==
    /\ SizeChecked
    /\ req.max_size_mb = 100 /\ req.file_size = 104857600
    /\ ret.result.ok

TypeChecked == req.op = "validate_file_type" /\ ret # NoRet

\* the type of the extension, else the type the bytes are sniffed as, else none
ResolvedType(filename, file_content) ==
    IF GuessType(filename) # None THEN GuessType(filename)
    ELSE IF file_content.len > 0 THEN MagicFromBuffer(file_content)
    ELSE None

\* C12: validate_file_type sniffs the content only when the extension yields no
\* type; it fails when neither the extension nor the content yields a type; it
\* accepts only when the resolved type is, as a string, equal to an entry of
\* the allow-list (and, for a non-empty filename, whenever it is); and on
\* acceptance it returns the resolved type.
C12_TypeContract ==
    TypeChecked =>
        LET r == ret.result
            resolved == ResolvedType(req.filename, req.file_content)
            listed == \E i \in 1..Len(req.allowed_types) : req.allowed_types[i] = resolved
        IN /\ r.sniffed => GuessType(req.filename) = None
           /\ resolved = None => ~r.ok
           /\ r.ok => (resolved # None /\ listed /\ r.type = resolved)
           /\ (req.filename # <<>> /\ resolved # None /\ listed) => r.ok

\* a file without extension has been accepted as the type its bytes show
C12_Witness ==
    /\ TypeChecked
    /\ req.filename = NameNoExt /\ req.file_content = Content("pdf", 1)
    /\ req.allowed_types = AllowedTypes
    /\ ret.result.ok /\ ret.result.sniffed /\ ret.result.type = "application/pdf"

\* a file with the extension of an allowed type and the bytes of another has
\* been accepted as the type of the extension, without sniffing
C12_WitnessExtension ==
    /\ TypeChecked
    /\ req.filename = NameTxt /\ req.file_content = Content("bin", 2)
    /\ ret.result.ok /\ ~ret.result.sniffed /\ ret.result.type = "text/plain"

\* the three checks of a file, each on its own: the filename as sent (or
\* "unknown"), the type of the trimmed name and the bytes, the size of the bytes
NameCheck(file) == ValidateFilename(IF file.filename = <<>> THEN Unknown ELSE file.filename)

TypeCheck(file) ==
    ValidateFileType(Strip(IF file.filename = <<>> THEN Unknown ELSE file.filename),
                     AllowedTypes, file.content)

SizeCheck(file) == ValidateFileSize(file.content.len, 100)

NoError == "no error"

\* the error of the first check that fails, in the order filename, type, size
EarliestError(file) ==
    IF ~NameCheck(file).ok THEN NameCheck(file).err
    ELSE IF ~TypeCheck(file).ok THEN TypeCheck(file).err
    ELSE IF ~SizeCheck(file).ok THEN SizeCheck(file).err
    ELSE NoError

PassesAll(file) == NameCheck(file).ok /\ TypeCheck(file).ok /\ SizeCheck(file).ok

\* C13: in POST /upload/single a file that fails a check is answered 400 with
\* the error of the first failing check in the order filename, type, size, and
\* no S3 call is made; in POST /upload/multiple the warnings logged are, file
\* by file, the errors of the first failing check of the rejected files, and
\* put_object is called exactly for the files that pass all three checks.
C13_ChecksInOrder ==
    /\ req.op = "upload_single" =>
          /\ ~PassesAll(req.file) =>
                /\ ret.status = 400 /\ ret.detail = EarliestError(req.file)
                /\ log = <<[level |-> "warning", message |-> EarliestError(req.file)]>>
                /\ calls = <<>>
          /\ calls # <<>> => PassesAll(req.file)
    /\ req.op = "upload_multiple" =>
          LET rejected == SelectSeq(req.files, LAMBDA f : ~PassesAll(f))
              passed == SelectSeq(req.files, PassesAll)
              warnings == SelectSeq(log, LAMBDA l : l.level = "warning")
          IN /\ Len(warnings) = Len(rejected)
             /\ \A i \in 1..Len(rejected) : warnings[i].message = EarliestError(rejected[i])
             /\ Len(calls) = Len(passed)
             /\ \A i \in 1..Len(passed) :
                    /\ calls[i].api = "put_object"
                    /\ calls[i].key.name = NameCheck(passed[i]).name

\* a file whose type and size both fail has been answered with the type error
C13_Witness ==
    /\ req.op = "upload_single"
    /\ ~TypeCheck(req.file).ok /\ ~SizeCheck(req.file).ok /\ NameCheck(req.file).ok
    /\ ret.status = 400 /\ ret.detail = TypeCheck(req.file).err
    /\ ret.detail # SizeCheck(req.file).err

\* a batch with a file failing all three checks and a file passing them
C13_WitnessBatch ==
    /\ req.op = "upload_multiple"
    /\ Len(req.files) = 2
    /\ ~NameCheck(req.files[1]).ok /\ ~TypeCheck(req.files[1]).ok /\ ~SizeCheck(req.files[1]).ok
    /\ PassesAll(req.files[2])
    /\ Len(log) = 1 /\ log[1].message = NameCheck(req.files[1]).err
    /\ Len(calls) = 1

WellFormed(file_id) == file_id.form \in UuidForms

\* C14: GET /upload/status/{file_id} answers 400 and calls nothing of S3 when
\* the id is no well-formed UUID; for a well-formed id, with S3 answering its
\* calls, it answers 404 not-found when no object lies under the identity's
\* prefix and 200 with the status of the file when one does.
C14_StatusRoute ==
    req.op = "get_upload_status" =>
        IF ~WellFormed(req.file_id)
        THEN ret.status = 400 /\ calls = <<>>
        ELSE NoFault(calls) =>
               IF HasObjects(store, req.file_id.id)
               THEN /\ ret.status = 200
                    /\ ret.data.file_id = req.file_id.id
                    /\ ret.data.status = "uploaded"
                    /\ ret.data.storage_url \in KeysOf(store, req.file_id.id)
               ELSE ret.status = 404 /\ IsNotFound(ret.detail)

\* the status of a stored file has been answered for an id written without hyphens
C14_Witness ==
    /\ req.op = "get_upload_status"
    /\ req.file_id.form = "hex"
    /\ ret.status = 200
    /\ HasObjects(store, req.file_id.id)

\* a well-formed id without objects has been answered 404
C14_WitnessNotFound ==
    /\ req.op = "get_upload_status"
    /\ WellFormed(req.file_id)
    /\ NoFault(calls) /\ calls # <<>>
    /\ ret.status = 404

\* a malformed id has been answered 400 while the bucket holds objects
C14_WitnessMalformed ==
    /\ req.op = "get_upload_status"
    /\ ~WellFormed(req.file_id)
    /\ ret.status = 400
    /\ HasObjects(store, req.file_id.id)

ListRoute == req.op = "list_route"

\* C15: GET /upload/list never asks S3 for a max_keys outside 1..1000: with
\* max_keys <= 0 or max_keys > 1000 it answers 400 and calls nothing of S3;
\* with max_keys in 1..1000 it lists once with that max_keys, answers 200 when
\* the listing succeeded and 500 when it failed, and a listing it answers has
\* at most max_keys entries and total_files equal to their number.
C15_ListBounded ==
    ListRoute =>
        /\ \A i \in 1..Len(calls) :
               calls[i].api = "list_objects_v2" => calls[i].max_keys \in 1..MaxKeysLimit
        /\ IF req.max_keys <= 0 \/ req.max_keys > MaxKeysLimit
           THEN ret.status = 400 /\ calls = <<>>
           ELSE /\ calls # <<>>
                /\ calls[1].api = "list_objects_v2"
                /\ calls[1].max_keys = req.max_keys
                /\ ret.status = IF calls[1].fault = "none" THEN 200 ELSE 500
                /\ ret.status = 200 =>
                      /\ Len(ret.data.files) <= req.max_keys
                      /\ ret.data.total_files = Len(ret.data.files)

\* a listing has been cut at max_keys: the bucket holds more under the prefix
C15_Witness ==
    /\ ListRoute
    /\ ret.status = 200
    /\ req.max_keys = 1
    /\ ret.data.total_files = 1
    /\ Len(ListObjects(store, req.prefix)) = 2

\* max_keys above the limit has been refused while the bucket holds objects
C15_WitnessRefused ==
    /\ ListRoute
    /\ req.max_keys = MaxKeysLimit + 1
    /\ ret.status = 400
    /\ DOMAIN store # {}

HealthOps == {"health_check", "storage_health"}

\* C16: health_check issues one listing capped at 1 result and nothing else,
\* leaves the bucket as it was, and always returns: "healthy" with the bucket
\* accessible when the listing succeeded, "unhealthy" with bucket_accessible
\* false when it failed; GET /health/storage answers 200 with a body that
\* says healthy or unhealthy accordingly.
C16_HealthProbe ==
    [][ (req = NoReq /\ req'.op \in HealthOps) =>
          /\ store' = store
          /\ Len(calls') = 1
          /\ calls'[1].api = "list_objects_v2" /\ calls'[1].max_keys = 1
          /\ req'.op = "health_check" =>
                /\ ret'.ok
                /\ IF calls'[1].fault = "none"
                   THEN ret'.value.status = "healthy" /\ ret'.value.bucket_accessible
                   ELSE ret'.value.status = "unhealthy" /\ ~ret'.value.bucket_accessible
          /\ req'.op = "storage_health" =>
                /\ ret'.status = 200
                /\ ret'.success = (calls'[1].fault = "none")
                /\ ret'.data.status = IF calls'[1].fault = "none"
                                      THEN "healthy" ELSE "unhealthy"
                /\ ret'.data.bucket_accessible = (calls'[1].fault = "none") ]_vars

\* health_check has returned "unhealthy" over a bucket that holds objects
C16_Witness ==
    /\ req.op = "health_check"
    /\ ret.ok /\ ret.value.status = "unhealthy"
    /\ calls[1].fault = "Exception"
    /\ DOMAIN store # {}

\* GET /health/storage has answered 200 with an unhealthy body
C16_WitnessRoute ==
    /\ req.op = "storage_health"
    /\ ret.status = 200 /\ ~ret.success
    /\ ret.data.status = "unhealthy"
    /\ DOMAIN store # {}

UploadSingle == req.op = "upload_single"

\* C17: POST /upload/single answers 400 when the file fails a check, 200 with
\* the envelope of the stored file when every check passed and put_object
\* succeeded, 500 when every check passed and put_object failed; it answers
\* nothing else.
C17_SingleStatus ==
    UploadSingle =>
        /\ ret.status \in {200, 400, 500}
        /\ ret.status = 400 <=> ~PassesAll(req.file)
        /\ ret.status = 200 <=> (PassesAll(req.file) /\ calls # <<>> /\ NoFault(calls))
        /\ ret.status = 500 <=> (PassesAll(req.file) /\ calls # <<>> /\ ~NoFault(calls))
        /\ ret.status = 200 =>
              /\ ret.success
              /\ ret.data.filename = NameCheck(req.file).name
              /\ ret.data.file_type = TypeCheck(req.file).type
              /\ ret.data.file_size = req.file.content.len
              /\ ret.data.storage_url \in DOMAIN store

\* a file that passed every check has been answered 500: put_object failed
C17_Witness ==
    /\ UploadSingle
    /\ PassesAll(req.file)
    /\ Len(calls) = 1 /\ calls[1].fault = "ClientError"
    /\ ret.status = 500

\* a file that passed every check has been stored and answered 200
C17_WitnessStored ==
    /\ UploadSingle
    /\ ret.status = 200
    /\ ret.data.storage_url \in DOMAIN store

\* the keys of the objects upload_file wrote for an identity
WrittenFor(st, file_id) == {k \in DOMAIN st : st[k].Metadata.file_id = file_id}

\* the keys list_objects_v2 returns for a prefix
Listed(st, prefix) ==
    {ListObjects(st, prefix)[n].Key : n \in 1..Len(ListObjects(st, prefix))}

IdentityPrefix(file_id) == UploadPath \o IdText(file_id) \o <<"/">>

EndsInOneSlash(s) ==
    /\ s # <<>> /\ s[Len(s)] = "/"
    /\ Len(s) > 1 => s[Len(s) - 1] # "/"

\* C18: the upload path of the service ends in exactly one "/"; upload_file
\* writes the key <upload path><file id>/<filename>; get_file_status and
\* delete_file list the prefix <upload path><file id>/; the listing of that
\* prefix holds exactly the objects written for the identity, so that, with
\* S3 answering, status succeeds exactly when the identity has objects and
\* delete leaves none; and the keys of one identity start with the same prefix.
C18_KeyDerivation ==
    /\ EndsInOneSlash(UploadPath)
    /\ req.op = "upload_file" =>
          /\ Len(calls) = 1 /\ calls[1].api = "put_object"
          /\ req.file_id # NoId => calls[1].key.id = req.file_id.id
          /\ ret.ok => calls[1].key.id = ret.value.file_id
          /\ KeyText(calls[1].key) = IdentityPrefix(calls[1].key.id) \o req.file.filename
    /\ req.op \in {"get_file_status", "delete_file"} =>
          /\ calls[1].api = "list_objects_v2"
          /\ PrefixText(calls[1].prefix) = IdentityPrefix(req.file_id)
    /\ \A i \in IDs :
          /\ Listed(store, PrefixOfId(i)) = WrittenFor(store, i)
          /\ \A k \in WrittenFor(store, i) : StartsWith(KeyText(k), IdentityPrefix(i))
    /\ (req.op = "get_file_status" /\ NoFault(calls)) =>
          (ret.ok <=> WrittenFor(store, req.file_id) # {})
    /\ (req.op = "delete_file" /\ NoFault(calls)) => WrittenFor(store, req.file_id) = {}

\* the status of an identity with two objects has been returned by a service
\* whose configured upload path was not in normal form
C18_Witness ==
    /\ req.op = "get_file_status"
    /\ ret.ok
    /\ Cardinality(WrittenFor(store, req.file_id)) = 2
    /\ upload_path # UploadPath

\* delete_file has removed the objects of one identity and kept those of another
C18_WitnessDelete ==
    /\ req.op = "delete_file"
    /\ ret.ok
    /\ DOMAIN store # {}
    /\ upload_path = <<>>

UploadFileReturns == req = NoReq /\ req'.op = "upload_file" /\ ret'.ok

\* C19 as stated: upload_file given no identity returns one not seen before,
\* and after a successful upload_file the prefix of the returned identity holds
\* exactly one object, with the content, the filename and the content type
\* passed to the call.
C19_AsStated ==
    [][ UploadFileReturns =>
          /\ req'.file_id = NoId => ret'.value.file_id \notin used
          /\ Listed(store', PrefixOfId(ret'.value.file_id))
                = {S3Key(ret'.value.file_id, req'.file.filename)}
          /\ \A k \in Listed(store', PrefixOfId(ret'.value.file_id)) :
                /\ store'[k].Body = req'.file.content
                /\ store'[k].ContentType = req'.file.content_type
                /\ store'[k].Metadata.original_filename = req'.file.filename ]_vars

\* the identity is newly assigned, or holds nothing under another filename
OwnsPrefix ==
    \/ req'.file_id = NoId
    \/ WrittenFor(store, ret'.value.file_id)
          \subseteq {S3Key(ret'.value.file_id, req'.file.filename)}

\* C19: upload_file given no identity returns one not seen before; after a
\* successful upload_file whose identity was newly assigned or held no object
\* under another filename, the prefix of the returned identity holds exactly
\* one object, with the content, the filename and the content type passed.
C19_UploadOwnsPrefix ==
    [][ (UploadFileReturns /\ OwnsPrefix) =>
          /\ req'.file_id = NoId =>
                /\ ret'.value.file_id \notin used
                /\ WrittenFor(store, ret'.value.file_id) = {}
          /\ Listed(store', PrefixOfId(ret'.value.file_id))
                = {S3Key(ret'.value.file_id, req'.file.filename)}
          /\ \A k \in Listed(store', PrefixOfId(ret'.value.file_id)) :
                /\ k.name = req'.file.filename
                /\ store'[k].Body = req'.file.content
                /\ store'[k].ContentType = req'.file.content_type
                /\ store'[k].Metadata.original_filename = req'.file.filename ]_vars

\* upload_file given no identity has stored a file beside that of another identity
C19_Witness ==
    /\ req.op = "upload_file" /\ ret.ok
    /\ req.file_id = NoId
    /\ Cardinality(DOMAIN store) = 2
    /\ Cardinality(WrittenFor(store, ret.value.file_id)) = 1

RaisingOps ==
    {"upload_file", "upload_multiple_files", "get_file_status", "delete_file", "list_files"}

Failed(cs) == {i \in 1..Len(cs) : cs[i].fault \notin Answers}

\* C20: a failure of upload_file, upload_multiple_files, get_file_status,
\* delete_file or list_files is a StorageServiceError, whatever S3 answered:
\* a failed call of S3 fails upload_file, get_file_status and delete_file, a
\* failed listing fails list_files, and a batch none of whose files was stored
\* fails upload_multiple_files, each with a StorageServiceError; not-found is
\* a StorageServiceError too.
C20_OwnErrors ==
    (req.op \in RaisingOps) =>
        /\ ~ret.ok => (DOMAIN ret = {"ok", "error"} /\ ret.error.type = "StorageServiceError")
        /\ (req.op \in {"upload_file", "get_file_status", "delete_file"}
                /\ Failed(calls) # {}) => ~ret.ok
        /\ (req.op = "list_files" /\ 1 \in Failed(calls)) => ~ret.ok
        /\ (req.op = "upload_multiple_files" /\ Failed(calls) = 1..Len(calls)) => ~ret.ok
        /\ (req.op \in {"get_file_status", "delete_file"} /\ Failed(calls) = {}
                /\ WrittenFor(store, req.file_id) = {} /\ ~ret.ok) => IsNotFound(ret.error)

\* get_file_status has failed on an exception of head_object that is no ClientError
C20_Witness ==
    /\ req.op = "get_file_status"
    /\ Len(calls) = 2 /\ calls[2].fault = "Exception"
    /\ ~ret.ok /\ ret.error.type = "StorageServiceError"

\* upload_multiple_files has failed after put_object failed for both of its files
C20_WitnessBatch ==
    /\ req.op = "upload_multiple_files"
    /\ Len(calls) = 2 /\ Failed(calls) = {1, 2}
    /\ ~ret.ok /\ ret.error.type = "StorageServiceError"

UploadRequested == req = NoReq /\ req'.op \in {"upload_single", "upload_multiple"}

WriteSucceeded(cs) == {i \in 1..Len(cs) : cs[i].fault = "none"}

\* C21: within one upload request put_object is called at most once for a
\* file: the calls are for pairwise different keys and no more than the files
\* of the request; a failed call stores nothing and is not repeated: the single
\* upload answers 500 after its one call, the batch goes on to the next file;
\* the objects the request adds are exactly those of its successful calls.
C21_NoRetry ==
    [][ UploadRequested =>
          /\ \A i, j \in 1..Len(calls') : i # j => calls'[i].key # calls'[j].key
          /\ \A i \in 1..Len(calls') : calls'[i].api = "put_object"
          /\ Len(calls') <= IF req'.op = "upload_single" THEN 1 ELSE Len(req'.files)
          /\ DOMAIN store' \ DOMAIN store = {calls'[i].key : i \in WriteSucceeded(calls')}
          /\ \A i \in Failed(calls') : calls'[i].key \notin DOMAIN store'
          /\ (req'.op = "upload_single" /\ Failed(calls') # {}) =>
                (ret'.status = 500 /\ store' = store)
          /\ (req'.op = "upload_multiple" /\ ret'.status = 200) =>
                Len(ret'.data.uploaded_files) = Cardinality(WriteSucceeded(calls')) ]_vars

\* a batch whose first write failed and whose second write was stored
C21_Witness ==
    /\ req.op = "upload_multiple"
    /\ Len(calls) = 2 /\ Failed(calls) = {1}
    /\ calls[1].key \notin DOMAIN store /\ calls[2].key \in DOMAIN store
    /\ ret.status = 200 /\ Len(ret.data.uploaded_files) = 1

\* a single upload whose one write failed
C21_WitnessSingle ==
    /\ req.op = "upload_single"
    /\ Len(calls) = 1 /\ Failed(calls) = {1}
    /\ ret.status = 500
    /\ DOMAIN store # {}

\* C22 as stated: an object appears only by a successful upload_file,
\* disappears only by delete_file, and while it exists its bytes, content
\* type, metadata and modification time stay as they were stored.
C22_AsStated ==
    [][ /\ \A k \in DOMAIN store' \ DOMAIN store : req'.op = "upload_file" /\ ret'.ok
        /\ \A k \in DOMAIN store \ DOMAIN store' : req'.op = "delete_file"
        /\ \A k \in DOMAIN store \cap DOMAIN store' : store'[k] = store[k] ]_vars


\* C23: a delete_file that returns True leaves nothing under the prefix of the
\* identity, however many objects the identity had
C23_AsStated ==
    [][ (req'.op = "delete_file" /\ ret'.ok /\ ret'.value = TRUE) =>
            Listed(store', PrefixOfId(req'.file_id)) = {} ]_vars


\* the object get_file_status reads for its identity: the first listed
StatusObject == ListObjects(store, PrefixOfId(req.file_id))[1]

StatusAnswered ==
    /\ req.op = "get_file_status" /\ NoFault(calls)
    /\ Listed(store, PrefixOfId(req.file_id)) # {}

UploadedAtMissing(metadata) == "uploaded_at" \notin DOMAIN metadata
UploadedAtMalformed(metadata) ==
    "uploaded_at" \in DOMAIN metadata /\ "iso" \notin DOMAIN metadata.uploaded_at

\* C24: get_file_status of an identity with objects succeeds with status
\* 'uploaded' whatever the metadata of the object holds, when S3 answers its two
\* calls; it reports the last-modified time of the object when uploaded_at is
\* absent or cannot be parsed, and the parsed uploaded_at otherwise
C24_MetadataFallback ==
    StatusAnswered =>
        LET metadata == store[StatusObject.Key].Metadata
        IN /\ ret.ok /\ ret.value.status = "uploaded"
           /\ ret.value.file_id = req.file_id
           /\ (UploadedAtMissing(metadata) \/ UploadedAtMalformed(metadata)) =>
                  ret.value.uploaded_at = StatusObject.LastModified
           /\ (~UploadedAtMissing(metadata) /\ ~UploadedAtMalformed(metadata)) =>
                  ret.value.uploaded_at = metadata.uploaded_at.iso

\* get_file_status has answered for an object without uploaded_at
C24_Witness ==
    /\ StatusAnswered /\ ret.ok
    /\ UploadedAtMissing(store[StatusObject.Key].Metadata)
    /\ ret.value.uploaded_at = StatusObject.LastModified

\* get_file_status has answered for an object whose uploaded_at is no date
C24_WitnessMalformed ==
    /\ StatusAnswered /\ ret.ok
    /\ UploadedAtMalformed(store[StatusObject.Key].Metadata)
    /\ ret.value.uploaded_at = StatusObject.LastModified

\* get_file_status has answered with an uploaded_at read from the metadata
C24_WitnessParsed ==
    /\ StatusAnswered /\ ret.ok
    /\ ret.value.uploaded_at # StatusObject.LastModified


ListAnswered == req.op = "list_files" /\ calls # <<>> /\ calls[1].fault = "none"

\* the keys list_files has read the metadata of, and those whose read failed
HeadRead == {calls[n].key : n \in {m \in 2..Len(calls) : calls[m].fault = "none"}}
HeadFailed == {calls[n].key : n \in {m \in 2..Len(calls) : calls[m].fault # "none"}}

BaseFields == {"key", "size", "last_modified", "storage_class", "url"}
MetadataFields == {"file_id", "original_filename", "uploaded_at", "content_type"}

UnderUploadPath(key) == StartsWith(KeyText(key), UploadPath)

\* what the metadata of a stored object says, None for a field it lacks
MetadataOf(key, field) ==
    IF field \in DOMAIN store[key].Metadata THEN store[key].Metadata[field] ELSE None

\* C25: a listing that S3 answers succeeds whatever happens to the metadata
\* reads, with one entry for each key listed, in order, holding the key, the
\* size and the last-modified time; metadata is read only for keys under the upload
\* path; an entry holds the identity, filename and upload time of the metadata
\* exactly when its own metadata read succeeded
C25_BestEffort ==
    ListAnswered =>
        LET listed == ListObjectsV2(store, req.prefix, req.max_keys)
        IN /\ ret.ok
           /\ Len(ret.value) = Len(listed)
           /\ HeadRead \cup HeadFailed = {listed[i].Key : i \in {n \in 1..Len(listed) : UnderUploadPath(listed[n].Key)}}
           /\ \A i \in 1..Len(listed) :
                LET key == listed[i].Key
                    entry == ret.value[i]
                IN /\ entry.key = key
                   /\ entry.size = store[key].Body.len
                   /\ entry.last_modified.iso = store[key].LastModified
                   /\ DOMAIN entry = IF key \in HeadRead
                                     THEN BaseFields \cup MetadataFields ELSE BaseFields
                   /\ key \in HeadRead =>
                         /\ entry.file_id = MetadataOf(key, "file_id")
                         /\ entry.original_filename = MetadataOf(key, "original_filename")
                         /\ entry.uploaded_at = MetadataOf(key, "uploaded_at")
                         /\ entry.content_type = store[key].ContentType

\* a listing of two objects under the upload path: the metadata read of one
\* failed, the other is listed with its metadata
C25_Witness ==
    /\ ListAnswered /\ ret.ok /\ Len(ret.value) = 2
    /\ Cardinality(HeadFailed) = 1 /\ Cardinality(HeadRead) = 1
    /\ \E i \in 1..2 : /\ "file_id" \in DOMAIN ret.value[i]
                       /\ "file_id" \in DOMAIN store[ret.value[i].key].Metadata

\* a listing of an object outside the upload path next to one under it
C25_WitnessOutside ==
    /\ ListAnswered /\ ret.ok /\ Len(ret.value) = 2
    /\ \E i \in 1..2 : ~UnderUploadPath(ret.value[i].key)
    /\ Cardinality(HeadRead) = 1


InBatch(r) == r.op = "upload_multiple"

\* the files of a request the bucket holds, by the responses it has gathered
Gathered(s) ==
    IF InBatch(req[s]) THEN req[s].acc.uploaded_files
    ELSE IF req[s].op = "upload_single" /\ ret[s].status = 200 THEN <<ret[s].data>>
    ELSE <<>>

\* C26: with upload requests in flight together, every step leaves each stored
\* object as it was; an object a step stores is the first with its identity, an
\* identity uuid4 had not returned before; get_file_status finds every stored
\* object under its own identity; and a batch takes its files one at a time in
\* the order submitted, each turn adding at most the file whose turn it is
C26_Interleaved ==
    [][ /\ \A k \in DOMAIN store : k \in DOMAIN store' /\ store'[k] = store[k]
        /\ \A k \in DOMAIN store' \ DOMAIN store :
              /\ k.id \notin used /\ k.id \in used'
              /\ \A o \in DOMAIN store' : o.id = k.id => o = k
        /\ Cardinality(DOMAIN store' \ DOMAIN store) <= 1
        /\ \A k \in DOMAIN store' :
              LET r == GetFileStatus(store', k.id, "none", "none")
              IN r.ok /\ r.value.storage_url = k /\ r.value.filename = k.name
        /\ \A s \in Flights :
              /\ \A i \in 1..Len(Gathered(s))' :
                    Gathered(s)'[i].storage_url \in DOMAIN store'
              /\ (InBatch(req[s]) /\ InBatch(req'[s])) =>
                    /\ req'[s].files = req[s].files
                    /\ req'[s].done \in {req[s].done, req[s].done + 1}
                    /\ Len(Gathered(s)') \in {Len(Gathered(s)), Len(Gathered(s)) + 1}
                    /\ SubSeq(Gathered(s)', 1, Len(Gathered(s))) = Gathered(s)
                    /\ Len(Gathered(s)') > Len(Gathered(s)) =>
                          /\ req'[s].done = req[s].done + 1
                          /\ Gathered(s)'[Len(Gathered(s)')].filename =
                                ValidateUpload(req[s].files[req'[s].done]).filename
                          /\ Gathered(s)'[Len(Gathered(s)')].storage_url \notin DOMAIN store ]_vars

\* a batch has stored its first file and has a file left, while another
\* request in flight has stored a file of its own
C26_Witness ==
    \E s, o \in Flights :
        /\ s # o
        /\ InBatch(req[s]) /\ req[s].done = 1 /\ Len(req[s].files) = 2
        /\ Len(Gathered(s)) = 1 /\ Len(Gathered(o)) = 1
        /\ Gathered(s)[1].file_id # Gathered(o)[1].file_id
        /\ Cardinality(DOMAIN store) = 2


Proxied == req.op = "proxy"

\* the requests the orchestrator has sent to a service other than auth
Forwarded == {n \in 1..Len(calls) : calls[n].service # "auth"}

BearerGiven ==
    /\ req.authorization.present
    /\ StartsWith(req.authorization.text, BearerPrefix)

\* C27: on every route that passes a request on, the request goes to the
\* database or the storage service only after the auth service answered 200 to
\* the verify call for the same bearer token; without a Bearer Authorization
\* header the answer is 401 and no service is contacted; when the verify call
\* answers another status, times out (504) or cannot connect (503), only the
\* auth service has been contacted
C27_AuthFirst ==
    Proxied =>
        /\ ~BearerGiven => (ret.status = 401 /\ calls = <<>>)
        /\ BearerGiven =>
              /\ calls # <<>> /\ calls[1].service = "auth"
              /\ calls[1].authorization = BearerPrefix \o SplitSecond(req.authorization.text)
              /\ calls[1].outcome.kind = "timeout" => (ret.status = 504 /\ Forwarded = {})
              /\ calls[1].outcome.kind = "unreachable" => (ret.status = 503 /\ Forwarded = {})
              /\ (calls[1].outcome.kind = "response" /\ calls[1].outcome.status # 200) =>
                    (ret.status = calls[1].outcome.status /\ Forwarded = {})
        /\ \A n \in Forwarded :
              /\ n = 2 /\ Len(calls) = 2
              /\ calls[1].service = "auth"
              /\ calls[1].outcome = Answered(200)
              /\ calls[n].authorization = calls[1].authorization
              /\ calls[n].service = req.route.service

\* a request has been passed on to the database after its token was verified
C27_Witness ==
    /\ Proxied /\ Forwarded = {2}
    /\ calls[2].service = "database" /\ ret.status = 200

\* a request without a Bearer header has been refused
C27_WitnessRefused ==
    /\ Proxied /\ req.authorization.present /\ ~BearerGiven
    /\ ret.status = 401 /\ calls = <<>>

\* the verify call has timed out
C27_WitnessTimeout ==
    /\ Proxied /\ Len(calls) = 1 /\ calls[1].outcome = TimedOut /\ ret.status = 504


StatusRouted == req.op = "get_upload_status" /\ WellFormed(req.file_id)

\* C28: GET /upload/status/{file_id} with a well-formed id answers 200 or 404
\* and nothing else: whenever a call of S3 fails, the listing or the metadata
\* read, whatever the failure, the answer is 404 with the message of the
\* StorageServiceError, as for a file that is not there
C28_BackendAs404 ==
    StatusRouted =>
        /\ ret.status \in {200, 404}
        /\ ret.status = 200 <=> (NoFault(calls) /\ HasObjects(store, req.file_id.id))
        /\ Failed(calls) # {} =>
              /\ ret.status = 404
              /\ ret.detail.type = "StorageServiceError"

\* the listing failed for an identity whose file is stored: answered 404 with
\* a message that is not the not-found message
C28_Witness ==
    /\ StatusRouted /\ HasObjects(store, req.file_id.id)
    /\ Len(calls) = 1 /\ calls[1].fault = "Exception"
    /\ ret.status = 404 /\ ~IsNotFound(ret.detail)

\* the metadata read failed for a stored file: answered 404
C28_WitnessHead ==
    /\ StatusRouted /\ HasObjects(store, req.file_id.id)
    /\ Len(calls) = 2 /\ calls[2].fault = "ClientError"
    /\ ret.status = 404


ListedKeys(r) == {r.contents[i].Key : i \in 1..Len(r.contents)}

\* C29: delete_file removes the keys its own listing returned and no others,
\* and returns True: an object stored under the prefix after the listing is
\* left in place.  get_file_status reads the metadata of the first key it
\* listed from the bucket as it is at the second call: it fails when the key
\* has been removed since the listing, and otherwise reports the filename
\* stored by then
C29_NotAtomic ==
    [][ /\ (Pending /\ req.op = "delete_file" /\ ret' # NoRet) =>
              /\ ret'.ok /\ ret'.value = TRUE
              /\ DOMAIN store' = DOMAIN store \ ListedKeys(req)
              /\ \A k \in DOMAIN store' : store'[k] = store[k]
        /\ (Pending /\ req.op = "get_file_status" /\ ret' # NoRet) =>
              /\ store' = store
              /\ ret'.ok <=> req.contents[1].Key \in DOMAIN store
              /\ ~ret'.ok => ret'.error.type = "StorageServiceError"
              /\ ret'.ok =>
                    /\ ret'.value.storage_url = req.contents[1].Key
                    /\ ret'.value.filename =
                          store[req.contents[1].Key].Metadata.original_filename
                    /\ ret'.value.uploaded_at =
                          store[req.contents[1].Key].Metadata.uploaded_at.iso ]_vars

\* delete_file has returned True and an object stored since its listing lies
\* under the prefix
C29_Witness ==
    /\ req.op = "delete_file" /\ ret # NoRet /\ ret.ok
    /\ Len(calls) = 2
    /\ Listed(store, PrefixOfId(req.file_id)) # {}
    /\ Listed(store, PrefixOfId(req.file_id)) \cap calls[2].keys = {}

\* get_file_status has failed for a key removed since its listing
C29_WitnessStatus ==
    /\ req.op = "get_file_status" /\ ret # NoRet /\ ~ret.ok
    /\ Len(calls) = 2 /\ calls[2].fault = "ClientError"
    /\ calls[2].key \notin DOMAIN store


OfIdentity(k, file_id) == KeyHasPrefix(k, PrefixOfId(file_id))

\* C30: delete_file touches only the objects under the prefix of its identity:
\* every other object is left as it was, nothing is added, and a delete_file
\* that fails leaves the bucket as it was; get_file_status reports only an
\* object stored under the prefix of the identity asked for
C30_Isolated ==
    [][ /\ (req = NoReq /\ req'.op = "delete_file") =>
              /\ DOMAIN store' \subseteq DOMAIN store
              /\ \A k \in DOMAIN store' : store'[k] = store[k]
              /\ \A k \in DOMAIN store :
                    ~OfIdentity(k, req'.file_id) => k \in DOMAIN store'
              /\ ~ret'.ok => store' = store
        /\ (req'.op = "get_file_status" /\ ret'.ok) =>
              /\ ret'.value.file_id = req'.file_id
              /\ ret'.value.storage_url \in DOMAIN store'
              /\ OfIdentity(ret'.value.storage_url, req'.file_id)
              /\ store'[ret'.value.storage_url].Metadata.file_id = req'.file_id
              /\ ret'.value.filename =
                    store'[ret'.value.storage_url].Metadata.original_filename ]_vars

\* delete_file has removed the objects of one identity and the object of
\* another is still stored
C30_Witness ==
    /\ req.op = "delete_file" /\ ret.ok
    /\ Listed(store, PrefixOfId(req.file_id)) = {}
    /\ \E k \in DOMAIN store : ~OfIdentity(k, req.file_id)

\* get_file_status has answered for one identity while another has an object
C30_WitnessStatus ==
    /\ req.op = "get_file_status" /\ ret.ok
    /\ \E k \in DOMAIN store : ~OfIdentity(k, req.file_id)

\* delete_file has failed at its listing while the bucket holds objects
C30_WitnessFailed ==
    /\ req.op = "delete_file" /\ ~ret.ok
    /\ Len(calls) = 1 /\ calls[1].fault # "none"
    /\ Listed(store, PrefixOfId(req.file_id)) # {}

====
